---- MODULE Spec2Model ----
(***************************************************************************)
(* A model of the header-tagged pack-file tools of SOTS DevTools:          *)
(*   inbox_router.py, validate_sots_pack.py, pack_linter.py and            *)
(*   sots_chatgpt_dispatcher.py, with run_bpgen_build.py and               *)
(*   devtools_status_dashboard.py.                                         *)
(*                                                                         *)
(* Strings are sequences of lexemes.  A lexeme is a TLA+ string that       *)
(* stands for the literal piece of text it spells: the two header markers, *)
(* the single characters the parsers look at (newline, blank, ':', '#',    *)
(* '=', ...) and words made of letters, digits, '_', '.' and '-'.  Every   *)
(* set of lexemes used as an input alphabet below is uniquely decodable    *)
(* (no text is spelled by two different lexeme sequences), so equality of  *)
(* lexeme sequences is equality of the texts they spell, and the order of  *)
(* positions in a sequence is the order of positions in the text.          *)
(***************************************************************************)
EXTENDS Integers, Sequences, FiniteSets, TLC

VARIABLES
    text,       \* content of the file / the string handed to the operation
    pc,         \* which operation has been applied to the input
    header,     \* result of the last parse_header_block call (an Option)
    config,     \* result of the last sots_chatgpt_dispatcher.parse_header call
    segment,    \* result of the last sanitize_segment call
    auto,       \* result of the last should_auto_dispatch call
    name,       \* base name of the file
    force,      \* the force argument of the last dispatch_file call
    launched,   \* the commands handed to subprocess.Popen that started
    log,        \* the dispatcher's log lines (their fixed part)
    routed,     \* what route_file returned
    dirs,       \* the directories made below the inbox directory
    place,      \* where the file is: at the inbox's top level or at a path
    report,     \* what validate_pack returned
    row,        \* the row lint_packs made for the file
    inbox,      \* the inbox directory before a batch run: its entries
    argv,       \* the command-line options of the last main
    env,        \* what the file system and the environment answered
    results,    \* the per-file results of the last batch run, in order
    summary,    \* the counters of the last batch run
    places,     \* where each file of the inbox is after the batch run
    exit,       \* how the last main ended, and its return value
    status_file,\* the status file of devtools_status_dashboard: path and content
    runs        \* how many times devtools_status_dashboard has run

parsed == <<header, config>>
pure == <<segment, auto>>
dispatch == <<force, launched, log>>
routing == <<routed, dirs, place>>
linting == <<report, row>>
batch == <<inbox, argv, env, results, summary, places, exit>>
board == <<status_file, runs>>
vars == <<text, pc, name, parsed, pure, dispatch, routing, linting, batch, board>>

----------------------------------------------------------------------------
(* Lexemes *)

HEADER_START == "[SOTS_DEVTOOLS]"
HEADER_END   == "[/SOTS_DEVTOOLS]"
NL     == "\n"
SP     == " "
COLON  == ":"
HASH   == "#"
EQUALS == "="

\* Python's None, and a present value
None == [isNone |-> TRUE]
Some(d) == [isNone |-> FALSE, data |-> d]

\* an empty dict; a dict is a function from keys (strings) to values (strings)
EmptyDict == <<>>

MinOf(S) == CHOOSE i \in S : \A j \in S : i <= j
MaxOf(S) == CHOOSE i \in S : \A j \in S : i >= j

----------------------------------------------------------------------------
(* How a main ends, and the names of the files of an inbox *)

\* no value yet: no options given, nothing asked of the environment
Nothing == [none |-> TRUE]

\* how a main ended: it returned a value, or an exception left it
Returned(code) == [how |-> "returned", code |-> code]
Raised == [how |-> "raised", code |-> 0]
NotEnded == [how |-> "none", code |-> 0]

\* the i-th candidate file of the inbox; the names sort in the order of i
FileName(i) == <<"pack" \o ToString(i), ".", "txt">>

----------------------------------------------------------------------------
(* Python str primitives, on 0-based positions as in the source *)

\* s.find(sub, start): lowest index >= start at which sub occurs, else -1
Find(s, sub, start) ==
    LET idx == {i \in (start + 1)..Len(s) : s[i] = sub}
    IN IF idx = {} THEN -1 ELSE MinOf(idx) - 1

\* s[a:b]
Slice(s, a, b) == SubSeq(s, a + 1, b)

\* characters str.strip() removes
IsSpace(c) == c \in {SP, NL}

\* s.strip()
Strip(s) ==
    LET idx == {i \in 1..Len(s) : ~IsSpace(s[i])}
    IN IF idx = {} THEN <<>> ELSE SubSeq(s, MinOf(idx), MaxOf(idx))

\* s.splitlines(): split at line breaks, no empty last line
RECURSIVE SplitLines(_)
SplitLines(s) ==
    IF s = <<>> THEN <<>>
    ELSE LET n == Find(s, NL, 0)
         IN IF n = -1 THEN <<s>>
            ELSE <<Slice(s, 0, n)>> \o SplitLines(Slice(s, n + 1, Len(s)))

\* lines[1:]
DropFirst(lines) == SubSeq(lines, 2, Len(lines))

\* c.lower() for one lexeme: the words that have an upper-case spelling
LowerLexeme(c) ==
    CASE c = "K" -> "k"
      [] c = "TOOL" -> "tool"
      [] c = "Mode" -> "mode"
      [] c = "AUTO" -> "auto"
      [] c = "Auto" -> "auto"
      [] c = "AUTO_RUN" -> "auto_run"
      [] c = "MANUAL" -> "manual"
      [] c = "Z" -> "z"
      [] c = "My" -> "my"
      [] c = "Plugin" -> "plugin"
      [] c = "P2" -> "p2"
      [] c = "P3" -> "p3"
      [] c = "ChatGPT_Code_Block" -> "chatgpt_code_block"
      [] c = "No" -> "no"
      [] c = "FALSE" -> "false"
      [] c = "DRY_RUN" -> "dry_run"
      [] OTHER -> c

\* s.lower()
Lower(s) == [i \in 1..Len(s) |-> LowerLexeme(s[i])]

\* d[key] = value
DictSet(d, key, value) == (key :> value) @@ d

\* d.get(key, default)
DictGet(d, key, default) == IF key \in DOMAIN d THEN d[key] ELSE default

----------------------------------------------------------------------------
(* inbox_router.parse_header_block *)

\* a faulty variant: the key keeps its letter case
router_parse_line_KeyCase(data, line) ==
    LET striped == Strip(line)
    IN IF striped = <<>> \/ striped[1] = HASH THEN data
       ELSE LET c == Find(striped, COLON, 0)
            IN IF c = -1 THEN data
               ELSE DictSet(data,
                            Strip(Slice(striped, 0, c)),
                            Strip(Slice(striped, c + 1, Len(striped))))

\* a faulty variant: the first line of a key wins
router_parse_line_FirstWins(data, line) ==
    LET striped == Strip(line)
    IN IF striped = <<>> \/ striped[1] = HASH THEN data
       ELSE LET c == Find(striped, COLON, 0)
            IN IF c = -1 THEN data
               ELSE IF Lower(Strip(Slice(striped, 0, c))) \in DOMAIN data THEN data
               ELSE DictSet(data,
                            Lower(Strip(Slice(striped, 0, c))),
                            Strip(Slice(striped, c + 1, Len(striped))))

\* the loop body of lines 88-97: one line's effect on the dict
router_parse_line(data, line) ==
    LET striped == Strip(line)
    IN IF striped = <<>> \/ striped[1] = HASH THEN data
       ELSE LET c == Find(striped, COLON, 0)
            IN IF c = -1 THEN data
               ELSE DictSet(data,
                            Lower(Strip(Slice(striped, 0, c))),
                            Strip(Slice(striped, c + 1, Len(striped))))

RECURSIVE router_parse_lines(_, _)
router_parse_lines(lines, data) ==
    IF lines = <<>> THEN data
    ELSE router_parse_lines(Tail(lines), router_parse_line(data, Head(lines)))

\* a faulty variant: the end marker is searched from the start of the text
router_parse_header_block_EndFromZero(t) ==
    LET start_idx == Find(t, HEADER_START, 0)
        end_idx == Find(t, HEADER_END, 0)
    IN IF start_idx = -1 THEN None
       ELSE IF end_idx = -1 THEN None
       ELSE Some(router_parse_lines(DropFirst(SplitLines(Slice(t, start_idx, end_idx))),
                                    EmptyDict))

router_parse_header_block(t) ==
    LET start_idx == Find(t, HEADER_START, 0)
        end_idx == Find(t, HEADER_END, start_idx)
    IN IF start_idx = -1 THEN None
       ELSE IF end_idx = -1 THEN None
       ELSE Some(router_parse_lines(DropFirst(SplitLines(Slice(t, start_idx, end_idx))),
                                    EmptyDict))

(* validate_sots_pack.parse_header_block *)

validator_parse_line(data, line) ==
    LET striped == Strip(line)
    IN IF striped = <<>> \/ striped[1] = HASH THEN data
       ELSE LET c == Find(striped, COLON, 0)
            IN IF c = -1 THEN data
               ELSE DictSet(data,
                            Lower(Strip(Slice(striped, 0, c))),
                            Strip(Slice(striped, c + 1, Len(striped))))

RECURSIVE validator_parse_lines(_, _)
validator_parse_lines(lines, data) ==
    IF lines = <<>> THEN data
    ELSE validator_parse_lines(Tail(lines), validator_parse_line(data, Head(lines)))

validator_parse_header_block(t) ==
    LET start_idx == Find(t, HEADER_START, 0)
        end_idx == Find(t, HEADER_END, start_idx)
    IN IF start_idx = -1 THEN None
       ELSE IF end_idx = -1 THEN None
       ELSE Some(validator_parse_lines(DropFirst(SplitLines(Slice(t, start_idx, end_idx))),
                                       EmptyDict))

(* pack_linter.parse_header_block *)

linter_parse_line(data, line) ==
    LET striped == Strip(line)
    IN IF striped = <<>> \/ striped[1] = HASH THEN data
       ELSE LET c == Find(striped, COLON, 0)
            IN IF c = -1 THEN data
               ELSE DictSet(data,
                            Lower(Strip(Slice(striped, 0, c))),
                            Strip(Slice(striped, c + 1, Len(striped))))

RECURSIVE linter_parse_lines(_, _)
linter_parse_lines(lines, data) ==
    IF lines = <<>> THEN data
    ELSE linter_parse_lines(Tail(lines), linter_parse_line(data, Head(lines)))

linter_parse_header_block(t) ==
    LET start_idx == Find(t, HEADER_START, 0)
        end_idx == Find(t, HEADER_END, start_idx)
    IN IF start_idx = -1 THEN None
       ELSE IF end_idx = -1 THEN None
       ELSE Some(linter_parse_lines(DropFirst(SplitLines(Slice(t, start_idx, end_idx))),
                                    EmptyDict))

(* sots_chatgpt_dispatcher.parse_header *)

\* lines 53-65: "key: value" or "key=value"
dispatcher_parse_line(cfg, raw_line) ==
    LET line == Strip(raw_line)
    IN IF line = <<>> \/ line[1] = HASH THEN cfg
       ELSE LET c == Find(line, COLON, 0)
                e == Find(line, EQUALS, 0)
                at == IF c # -1 THEN c ELSE e
            IN IF at = -1 THEN cfg
               ELSE DictSet(cfg,
                            Lower(Strip(Slice(line, 0, at))),
                            Strip(Slice(line, at + 1, Len(line))))

RECURSIVE dispatcher_parse_lines(_, _)
dispatcher_parse_lines(lines, cfg) ==
    IF lines = <<>> THEN cfg
    ELSE dispatcher_parse_lines(Tail(lines), dispatcher_parse_line(cfg, Head(lines)))

\* The function returns the dict alone ({} when it logs "No SOTS_DEVTOOLS
\* header found."); found records which of its two log branches it took.
parse_header(t) ==
    LET start_idx == Find(t, HEADER_START, 0)
        end_idx == Find(t, HEADER_END, 0)
    IN IF start_idx = -1 \/ end_idx = -1 \/ end_idx < start_idx
       THEN [found |-> FALSE, dict |-> EmptyDict]
       ELSE [found |-> TRUE,
             dict |-> dispatcher_parse_lines(
                          SplitLines(Slice(t, start_idx + 1, end_idx)), EmptyDict)]

----------------------------------------------------------------------------
(* inbox_router.sanitize_segment *)

\* The characters a lexeme spells, as far as the character class
\* [A-Za-z0-9_.-] tells them apart: a marker is brackets (and a slash)
\* around a word, every other lexeme is one character or one word.
Spell(c) ==
    CASE c = HEADER_START -> <<"[", "SOTS_DEVTOOLS", "]">>
      [] c = HEADER_END -> <<"[", "/", "SOTS_DEVTOOLS", "]">>
      [] OTHER -> <<c>>

RECURSIVE SpellAll(_)
SpellAll(s) == IF s = <<>> THEN <<>> ELSE Spell(Head(s)) \o SpellAll(Tail(s))

\* the single characters outside [A-Za-z0-9_.-]
Disallowed == {SP, NL, COLON, HASH, EQUALS, "!", "/", "[", "]", ";", ","}

\* a faulty re.sub: the pattern without '+', one '_' per character
ReSubRuns_PerChar(s) ==
    [i \in 1..Len(s) |-> IF s[i] \in Disallowed THEN "_" ELSE s[i]]

\* re.sub(r"[^A-Za-z0-9_.-]+", "_", s): leftmost, longest, non-overlapping
RECURSIVE ReSubRuns(_)
ReSubRuns(s) ==
    IF s = <<>> THEN <<>>
    ELSE IF Head(s) \notin Disallowed THEN <<Head(s)>> \o ReSubRuns(Tail(s))
    ELSE LET rest == {i \in 2..Len(s) : s[i] \notin Disallowed}
         IN IF rest = {} THEN <<"_">>
            ELSE <<"_">> \o ReSubRuns(SubSeq(s, MinOf(rest), Len(s)))

\* a faulty variant: no fallback for an empty value
sanitize_segment_NoFallback(value) == ReSubRuns(SpellAll(Strip(value)))

sanitize_segment(value) ==
    LET v == Strip(value)
    IN IF v = <<>> THEN <<"misc">>
       ELSE ReSubRuns(SpellAll(v))

----------------------------------------------------------------------------
(* sots_chatgpt_dispatcher: str_to_bool, should_auto_dispatch, split_paths *)

\* a faulty variant: a value that says neither yes nor no counts as no
str_to_bool_NoUnlessYes(value, default) ==
    IF value.isNone THEN default
    ELSE Lower(Strip(value.data)) \in {<<"1">>, <<"true">>, <<"yes">>, <<"y">>}

\* value is None (absent) or Some(string)
str_to_bool(value, default) ==
    IF value.isNone THEN default
    ELSE LET v == Lower(Strip(value.data))
         IN IF v \in {<<"1">>, <<"true">>, <<"yes">>, <<"y">>} THEN TRUE
            ELSE IF v \in {<<"0">>, <<"false">>, <<"no">>, <<"n">>} THEN FALSE
            ELSE default

\* a faulty variant: an unrecognised or missing mode counts as auto
should_auto_dispatch_DefaultAuto(cfg) ==
    LET mode == Lower(Strip(DictGet(cfg, <<"mode">>, <<>>)))
    IN IF mode \in {<<"auto">>, <<"auto_run">>, <<"auto-run">>} THEN TRUE
       ELSE IF mode \in {<<"manual">>, <<"manual_only">>, <<"manual-run">>} THEN FALSE
       ELSE TRUE

\* a faulty variant: the mode is compared without lower()
should_auto_dispatch_NoLower(cfg) ==
    LET mode == Strip(DictGet(cfg, <<"mode">>, <<>>))
    IN IF mode \in {<<"auto">>, <<"auto_run">>, <<"auto-run">>} THEN TRUE
       ELSE FALSE

should_auto_dispatch(cfg) ==
    LET mode == Lower(Strip(DictGet(cfg, <<"mode">>, <<>>)))
    IN IF mode \in {<<"auto">>, <<"auto_run">>, <<"auto-run">>} THEN TRUE
       ELSE IF mode \in {<<"manual">>, <<"manual_only">>, <<"manual-run">>} THEN FALSE
       ELSE FALSE

\* re.split(r"[;,]", value), each part stripped, empty parts dropped
RECURSIVE split_paths(_)
split_paths(value) ==
    LET seps == {i \in 1..Len(value) : value[i] \in {";", ","}}
        n == IF seps = {} THEN Len(value) + 1 ELSE MinOf(seps)
        p == Strip(SubSeq(value, 1, n - 1))
        first == IF p = <<>> THEN <<>> ELSE <<p>>
    IN IF seps = {} THEN first
       ELSE first \o split_paths(SubSeq(value, n + 1, Len(value)))

----------------------------------------------------------------------------
(* sots_chatgpt_dispatcher: the tool runners *)

\* what a runner did: the commands it started and the lines it logged
Outcome(cmds, lines) == [launch |-> cmds, log |-> lines]

\* log(f"Launching ..."), then subprocess.Popen(cmd) inside try/except
Popen(tag, cmd, popen_ok) ==
    IF popen_ok THEN Outcome(<<cmd>>, <<"Launching " \o tag>>)
    ELSE Outcome(<<>>, <<"Launching " \o tag, "ERROR running " \o tag>>)

\* "not value" for a value read with dict.get(key): absent or empty
Missing(cfg, key) == DictGet(cfg, key, <<>>) = <<>>

\* "value or default" for strings
OrElse(value, default) == IF value = <<>> THEN default ELSE value

run_write_files(cfg, prompt_path, is_file, popen_ok) ==
    IF ~is_file THEN Outcome(<<>>, <<"write_files.py not found">>)
    ELSE Popen("write_files",
               <<<<"write_files.py">>, <<"--source">>, prompt_path>>, popen_ok)

run_quick_search(cfg, is_file, popen_ok) ==
    IF ~is_file THEN Outcome(<<>>, <<"quick_search.py not found">>)
    ELSE IF Missing(cfg, <<"pattern">>)
    THEN Outcome(<<>>, <<"quick_search requested but 'pattern' is missing.">>)
    ELSE LET paths == Strip(DictGet(cfg, <<"paths">>, <<>>))
             cmd == <<<<"quick_search.py">>, <<"--pattern">>, cfg[<<"pattern">>]>>
                    \o (IF paths # <<>> THEN <<<<"--paths">>, paths>> ELSE <<>>)
         IN Popen("quick_search", cmd, popen_ok)

run_regex_replace(cfg, is_file, popen_ok) ==
    IF ~is_file THEN Outcome(<<>>, <<"mass_regex_edit.py not found">>)
    ELSE LET replacement == DictGet(cfg, <<"replacement">>, <<>>)
             paths == Strip(DictGet(cfg, <<"paths">>, <<>>))
         IN IF Missing(cfg, <<"pattern">>)
            THEN Outcome(<<>>, <<"regex_replace requested but 'pattern' is missing.">>)
            ELSE IF paths = <<>>
            THEN Outcome(<<>>, <<"regex_replace requested but 'paths' is missing.">>)
            ELSE Popen("regex_replace",
                       <<<<"mass_regex_edit.py">>, <<"--pattern">>, cfg[<<"pattern">>],
                         <<"--replacement">>, replacement, <<"--paths">>, paths>>,
                       popen_ok)

RECURSIVE PathArgs(_)
PathArgs(paths) ==
    IF paths = <<>> THEN <<>>
    ELSE <<<<"--path">>, Head(paths)>> \o PathArgs(Tail(paths))

run_delete_paths(cfg, is_file, popen_ok) ==
    IF Missing(cfg, <<"paths">>)
    THEN Outcome(<<>>, <<"delete_paths requested but 'paths' is missing.">>)
    ELSE LET paths == split_paths(cfg[<<"paths">>])
             dry_run == str_to_bool(IF <<"dry_run">> \in DOMAIN cfg
                                    THEN Some(cfg[<<"dry_run">>]) ELSE None, TRUE)
         IN IF paths = <<>>
            THEN Outcome(<<>>, <<"delete_paths: no valid paths after parsing.">>)
            ELSE IF ~is_file THEN Outcome(<<>>, <<"delete_paths.py not found">>)
            ELSE Popen("delete_paths",
                       <<<<"delete_paths.py">>>> \o PathArgs(paths)
                           \o (IF dry_run THEN <<<<"--dry_run">>>> ELSE <<>>),
                       popen_ok)

run_patch_from_block_header(cfg, prompt_path, is_file, popen_ok) ==
    LET mode0 == OrElse(Lower(Strip(DictGet(cfg, <<"mode">>, <<"file">>))), <<"file">>)
        known == mode0 \in {<<"file">>, <<"patch">>}
        mode == IF known THEN mode0 ELSE <<"file">>
        warn == IF known THEN <<>> ELSE <<"patch_from_block: unexpected mode">>
        target == OrElse(Strip(DictGet(cfg, <<"target">>, <<>>)), <<"<unspecified-target>">>)
        label == OrElse(Strip(DictGet(cfg, <<"label">>, <<>>)), <<"chatgpt_block">>)
        run == IF ~is_file THEN Outcome(<<>>, <<"patch_from_block.py not found">>)
               ELSE Popen("patch_from_block (header)",
                          <<<<"patch_from_block.py">>, <<"--mode">>, mode,
                            <<"--target">>, target, <<"--label">>, label,
                            <<"--source">>, prompt_path>>,
                          popen_ok)
    IN Outcome(run.launch, warn \o run.log)

\* prompt_path.stem: the name without its last suffix
Stem(prompt_path) ==
    LET dots == {i \in 2..Len(prompt_path) : prompt_path[i] = "."}
    IN IF dots = {} THEN prompt_path ELSE SubSeq(prompt_path, 1, MaxOf(dots) - 1)

run_patch_from_block_fallback(prompt_path, is_file, popen_ok) ==
    IF ~is_file THEN Outcome(<<>>, <<"patch_from_block.py not found">>)
    ELSE Popen("patch_from_block (fallback)",
               <<<<"patch_from_block.py">>, <<"--mode">>, <<"file">>,
                 <<"--target">>, <<"<no-header-fallback>">>,
                 <<"--label">>, OrElse(Stem(prompt_path), <<"chatgpt_code_block">>),
                 <<"--source">>, prompt_path>>,
               popen_ok)

run_devtool(cfg, is_file, popen_ok) ==
    LET script_name == Strip(DictGet(cfg, <<"script">>, <<>>))
        args_str == Strip(DictGet(cfg, <<"args">>, <<>>))
    IN IF script_name = <<>>
       THEN Outcome(<<>>, <<"run_devtool requested but 'script:' header is missing.">>)
       ELSE IF ~is_file THEN Outcome(<<>>, <<"run_devtool.py not found">>)
       ELSE Popen("run_devtool",
                  <<<<"run_devtool.py">>, <<"--script">>, script_name>>
                      \o (IF args_str # <<>> THEN <<<<"--args">>, args_str>> ELSE <<>>),
                  popen_ok)

----------------------------------------------------------------------------
(* sots_chatgpt_dispatcher: _dispatch_config, fallback_dispatch, dispatch_file *)

dispatch_config(cfg, prompt_path, forced, is_file, popen_ok) ==
    IF cfg = EmptyDict THEN Outcome(<<>>, <<"No config; nothing to dispatch.">>)
    ELSE IF ~forced /\ ~should_auto_dispatch(cfg)
    THEN Outcome(<<>>, <<"Header mode implies manual; skipping auto-dispatch.">>)
    ELSE LET tool == Lower(DictGet(cfg, <<"tool">>, <<>>))
             run ==
                 CASE tool = <<"write_files">> ->
                          run_write_files(cfg, prompt_path, is_file, popen_ok)
                   [] tool = <<"quick_search">> ->
                          run_quick_search(cfg, is_file, popen_ok)
                   [] tool = <<"regex_replace">> ->
                          run_regex_replace(cfg, is_file, popen_ok)
                   [] tool = <<"delete_paths">> ->
                          run_delete_paths(cfg, is_file, popen_ok)
                   [] tool = <<"patch_from_block">> ->
                          run_patch_from_block_header(cfg, prompt_path, is_file, popen_ok)
                   [] tool = <<"run_devtool">> ->
                          run_devtool(cfg, is_file, popen_ok)
                   [] OTHER -> Outcome(<<>>, <<"Unknown or unsupported tool">>)
         IN Outcome(run.launch, <<"Dispatching with header">> \o run.log)

\* "chatgpt_code_block" in prompt_path.stem.lower()
IsCodeBlockName(prompt_path) ==
    \E i \in 1..Len(Stem(prompt_path)) :
        Lower(Stem(prompt_path))[i] = "chatgpt_code_block"

fallback_dispatch(prompt_path, is_file, popen_ok) ==
    LET run == IF IsCodeBlockName(prompt_path)
               THEN run_patch_from_block_fallback(prompt_path, is_file, popen_ok)
               ELSE Outcome(<<>>, <<"No known fallback handler for this prompt file; doing nothing.">>)
    IN Outcome(run.launch, <<"No header; fallback dispatch">> \o run.log)

\* the lines parse_header logs: one per malformed line, then one on the result
RECURSIVE MalformedLog(_)
MalformedLog(lines) ==
    IF lines = <<>> THEN <<>>
    ELSE LET line == Strip(Head(lines))
             bad == /\ line # <<>>
                    /\ line[1] # HASH
                    /\ Find(line, COLON, 0) = -1
                    /\ Find(line, EQUALS, 0) = -1
         IN (IF bad THEN <<"Skipping malformed header line">> ELSE <<>>)
                \o MalformedLog(Tail(lines))

parse_header_log(t) ==
    LET h == parse_header(t)
        start_idx == Find(t, HEADER_START, 0)
        end_idx == Find(t, HEADER_END, 0)
    IN IF ~h.found THEN <<"No SOTS_DEVTOOLS header found.">>
       ELSE MalformedLog(SplitLines(Slice(t, start_idx + 1, end_idx)))
            \o (IF h.dict = EmptyDict
                THEN <<"Header block was present but contained no key/value pairs.">>
                ELSE <<"Parsed header keys">>)

\* exists: prompt_path.is_file(); is_file: the handler's script is there;
\* popen_ok: subprocess.Popen did not raise
dispatch_file(t, prompt_path, forced, exists, is_file, popen_ok) ==
    IF ~exists THEN Outcome(<<>>, <<"ERROR: Prompt file not found">>)
    ELSE LET cfg == parse_header(t).dict
             run == IF cfg = EmptyDict
                    THEN fallback_dispatch(prompt_path, is_file, popen_ok)
                    ELSE dispatch_config(cfg, prompt_path, forced, is_file, popen_ok)
         IN Outcome(run.launch,
                    <<"Processing prompt file">> \o parse_header_log(t) \o run.log)

----------------------------------------------------------------------------
(* inbox_router.route_file *)

\* a or b or c or d or e, on values read with dict.get (absent reads as empty)
RECURSIVE FirstTruthy(_, _, _)
FirstTruthy(hdr, keys, default) ==
    IF keys = <<>> THEN default
    ELSE IF ~Missing(hdr, Head(keys)) THEN hdr[Head(keys)]
    ELSE FirstTruthy(hdr, Tail(keys), default)

\* line 116
route_tool(hdr) == sanitize_segment(DictGet(hdr, <<"tool">>, <<"unknown">>))

\* lines 117-123
route_plugin(hdr) ==
    sanitize_segment(
        FirstTruthy(hdr,
                    <<<<"plugin">>, <<"target_plugin">>, <<"target">>, <<"category">>>>,
                    <<"misc">>))

\* a faulty variant: the file is moved in a dry run too
route_file_IgnoresDryRun(t, file_name, dry_run, read_ok, mkdir_ok, replace_ok) ==
    LET hdr == router_parse_header_block(t)
        dest_dir == <<route_tool(hdr.data), route_plugin(hdr.data)>>
        dest_path == Append(dest_dir, file_name)
        result(new_path, reason, raised, made, moved) ==
            [new_path |-> new_path, reason |-> reason, raised |-> raised,
             made |-> made, moved |-> moved]
    IN IF ~read_ok
       THEN result(None, "ERROR: failed to read file", FALSE, {}, FALSE)
       ELSE IF hdr.isNone
       THEN result(None, "SKIP: no [SOTS_DEVTOOLS] header found", FALSE, {}, FALSE)
       ELSE IF ~mkdir_ok
       THEN result(None, "", TRUE, {}, FALSE)
       ELSE IF replace_ok
       THEN result(Some(dest_path), IF dry_run THEN "DRY-RUN: would move" ELSE "MOVED",
                   FALSE, {dest_dir}, TRUE)
       ELSE result(None, "ERROR: move failed", FALSE, {dest_dir}, FALSE)

\* What one call does.  read_ok, mkdir_ok, replace_ok: whether open/read,
\* os.makedirs and os.replace succeed.  raised: an exception left the
\* function (os.makedirs stands outside any try).  made: directories
\* created; moved: the file was renamed to new_path.  A path below the
\* inbox directory is the tuple of its parts.
route_file(t, file_name, dry_run, read_ok, mkdir_ok, replace_ok) ==
    LET hdr == router_parse_header_block(t)
        dest_dir == <<route_tool(hdr.data), route_plugin(hdr.data)>>
        dest_path == Append(dest_dir, file_name)
        result(new_path, reason, raised, made, moved) ==
            [new_path |-> new_path, reason |-> reason, raised |-> raised,
             made |-> made, moved |-> moved]
    IN IF ~read_ok
       THEN result(None, "ERROR: failed to read file", FALSE, {}, FALSE)
       ELSE IF hdr.isNone
       THEN result(None, "SKIP: no [SOTS_DEVTOOLS] header found", FALSE, {}, FALSE)
       ELSE IF ~mkdir_ok
       THEN result(None, "", TRUE, {}, FALSE)
       ELSE IF dry_run
       THEN result(Some(dest_path), "DRY-RUN: would move", FALSE, {dest_dir}, FALSE)
       ELSE IF replace_ok
       THEN result(Some(dest_path), "MOVED", FALSE, {dest_dir}, TRUE)
       ELSE result(None, "ERROR: move failed", FALSE, {dest_dir}, FALSE)

----------------------------------------------------------------------------
(* validate_sots_pack.validate_pack *)

KNOWN_TOOLS ==
    {<<"quick_search">>, <<"regex_search">>, <<"run_python_script">>,
     <<"apply_json_pack">>, <<"version_cleanup">>, <<"mass_regex_edit">>,
     <<"pack_lint">>, <<"devtools_status_update">>, <<"export_report_bundle">>,
     <<"pipeline_hub">>}

is_path_key(key) ==
    key \in {<<"path">>, <<"file">>, <<"target">>, <<"target_file">>,
             <<"script_path">>, <<"config_path">>}

\* the header fields whose value validate_pack looks up on disk
PathFields(hdr) == {k \in DOMAIN hdr : is_path_key(k) /\ Strip(hdr[k]) # <<>>}

\* a faulty variant: a tool outside KNOWN_TOOLS counts as a fatal error
validate_pack_UnknownToolFatal(t, is_file, read_ok, with_root, absent) ==
    LET hdr == validator_parse_header_block(t)
        counts(f, w) == [fatal_errors |-> f, warnings |-> w]
    IN IF ~is_file THEN counts(1, 0)
       ELSE IF ~read_ok THEN counts(1, 0)
       ELSE IF hdr.isNone THEN counts(1, 0)
       ELSE LET no_tool == Missing(hdr.data, <<"tool">>)
                unknown == ~no_tool /\ Strip(hdr.data[<<"tool">>]) \notin KNOWN_TOOLS
                paths == IF with_root
                         THEN Cardinality(absent \cap PathFields(hdr.data))
                         ELSE 0
            IN counts(IF no_tool \/ unknown THEN 1 ELSE 0, paths)

\* is_file: os.path.isfile(file_path); read_ok: the read succeeds;
\* with_root: project_root is not None; absent: the path fields whose path
\* does not exist.  Returns the two counters.
validate_pack(t, is_file, read_ok, with_root, absent) ==
    LET hdr == validator_parse_header_block(t)
        counts(f, w) == [fatal_errors |-> f, warnings |-> w]
    IN IF ~is_file THEN counts(1, 0)
       ELSE IF ~read_ok THEN counts(1, 0)
       ELSE IF hdr.isNone THEN counts(1, 0)
       ELSE LET no_tool == Missing(hdr.data, <<"tool">>)
                unknown == ~no_tool /\ Strip(hdr.data[<<"tool">>]) \notin KNOWN_TOOLS
                paths == IF with_root
                         THEN Cardinality(absent \cap PathFields(hdr.data))
                         ELSE 0
            IN counts(IF no_tool THEN 1 ELSE 0,
                      (IF unknown THEN 1 ELSE 0) + paths)

\* validate_sots_pack.main: the counters of validate_pack and main's end;
\* log_ok: write_log makes the log directory and writes the file
validate_main(t, is_file, read_ok, with_root, absent, log_ok) ==
    LET counts == validate_pack(t, is_file, read_ok, with_root, absent)
    IN [counts |-> counts,
        exit |-> IF ~log_ok THEN Raised
                 ELSE Returned(IF counts.fatal_errors = 0 THEN 0 ELSE 1)]

----------------------------------------------------------------------------
(* pack_linter: tool_schema_warnings and the body of lint_packs' loop *)

tool_schema_warnings(tool, hdr) ==
    LET t == Strip(tool)
        need(key, msg) == IF Missing(hdr, key) THEN <<msg>> ELSE <<>>
    IN IF t = <<"quick_search">>
       THEN need(<<"search">>, "quick_search: missing 'search' field")
            \o need(<<"exts">>, "quick_search: missing 'exts' field")
       ELSE IF t = <<"mass_regex_edit">>
       THEN need(<<"search">>, "mass_regex_edit: missing 'search' field")
            \o need(<<"replace">>, "mass_regex_edit: missing 'replace' field")
            \o need(<<"exts">>, "mass_regex_edit: missing 'exts' field")
       ELSE <<>>

\* a faulty variant: a schema warning sets WARN whatever the status was
lint_file_WarnOverrides(t, read_ok, has_validator, counts) ==
    LET hdr == linter_parse_header_block(t)
    IN IF ~read_ok
       THEN [tool |-> <<"?">>, status |-> "FAIL", details |-> <<"FAIL: cannot read file">>]
       ELSE IF hdr.isNone
       THEN [tool |-> <<"-">>, status |-> "SKIP",
             details |-> <<"SKIP: no [SOTS_DEVTOOLS] header">>]
       ELSE LET tool == Strip(DictGet(hdr.data, <<"tool">>, <<>>))
                fatal == has_validator /\ counts.fatal_errors > 0
                warned == has_validator /\ counts.warnings > 0 /\ ~fatal
                status1 == IF fatal THEN "FAIL" ELSE IF warned THEN "WARN" ELSE "OK"
                schema_warnings == tool_schema_warnings(tool, hdr.data)
                status2 == IF schema_warnings # <<>> THEN "WARN" ELSE status1
                status3 == IF tool = <<>> /\ status2 = "OK" THEN "FAIL" ELSE status2
            IN [tool |-> OrElse(tool, <<"?">>),
                status |-> status3,
                details |-> <<"no issues detected">>]

\* One file of lint_packs.  read_ok: the linter's own read succeeds;
\* has_validator: validate_sots_pack was imported; counts: what its
\* validate_pack returned for the file.
lint_file(t, read_ok, has_validator, counts) ==
    LET hdr == linter_parse_header_block(t)
    IN IF ~read_ok
       THEN [tool |-> <<"?">>, status |-> "FAIL", details |-> <<"FAIL: cannot read file">>]
       ELSE IF hdr.isNone
       THEN [tool |-> <<"-">>, status |-> "SKIP",
             details |-> <<"SKIP: no [SOTS_DEVTOOLS] header">>]
       ELSE LET tool == Strip(DictGet(hdr.data, <<"tool">>, <<>>))
                fatal == has_validator /\ counts.fatal_errors > 0
                warned == has_validator /\ counts.warnings > 0 /\ ~fatal
                status1 == IF fatal THEN "FAIL" ELSE IF warned THEN "WARN" ELSE "OK"
                details1 ==
                    (IF fatal THEN <<"fatal error(s) from validate_sots_pack">> ELSE <<>>)
                    \o (IF warned THEN <<"warning(s) from validate_sots_pack">> ELSE <<>>)
                schema_warnings == tool_schema_warnings(tool, hdr.data)
                status2 == IF schema_warnings # <<>> /\ status1 = "OK"
                           THEN "WARN" ELSE status1
                status3 == IF tool = <<>> /\ status2 = "OK" THEN "FAIL" ELSE status2
                details3 == details1 \o schema_warnings
                            \o (IF tool = <<>> THEN <<"missing 'tool' field">> ELSE <<>>)
            IN [tool |-> OrElse(tool, <<"?">>),
                status |-> status3,
                details |-> OrElse(details3, <<"no issues detected">>)]

----------------------------------------------------------------------------
(* inbox_router: scan_inbox and main, on a whole inbox directory *)

\* An inbox directory: whether it exists, its candidate files (the i-th is
\* FileName(i), holds files[i] and is at the path at[i]) and its other
\* entries, a file "notes.bin" and a sub-directory "unknown".
NotesEntry == [name |-> <<"notes", ".", "bin">>, kind |-> "file", index |-> 0]

SubdirEntry == [name |-> <<"unknown">>, kind |-> "dir", index |-> 0]

FileEntry(i) == [name |-> FileName(i), kind |-> "file", index |-> i]

\* Where the file system finds a path given by its parts below the inbox
\* directory: "." stays, ".." goes to the parent.  up: how many levels
\* above the inbox directory; parts: the names below that directory.
RECURSIVE ResolveFrom(_, _)
ResolveFrom(path, acc) ==
    IF path = <<>> THEN acc
    ELSE IF Head(path) = <<".">> THEN ResolveFrom(Tail(path), acc)
    ELSE IF Head(path) = <<".", ".">>
    THEN ResolveFrom(Tail(path),
                     IF acc.parts = <<>> THEN [acc EXCEPT !.up = @ + 1]
                     ELSE [acc EXCEPT !.parts = SubSeq(@, 1, Len(@) - 1)])
    ELSE ResolveFrom(Tail(path), [acc EXCEPT !.parts = Append(@, Head(path))])

Resolve(path) == ResolveFrom(path, [up |-> 0, parts |-> <<>>])

\* the i-th candidate file is an entry of the inbox directory itself
AtTopLevel(box, i) == Resolve(box.at[i]) = Resolve(<<FileName(i)>>)

\* sorted(os.listdir(inbox_dir)): "notes.bin" < "pack1.txt" < ... < "unknown"
Listing(box) ==
    (IF "notes" \in box.extras THEN <<NotesEntry>> ELSE <<>>)
    \o SelectSeq([i \in 1..Len(box.files) |-> FileEntry(i)],
                 LAMBDA e : AtTopLevel(box, e.index))
    \o (IF "subdir" \in box.extras THEN <<SubdirEntry>> ELSE <<>>)

\* os.path.isfile(full_path) and entry.lower().endswith((".txt", ...))
IsCandidate(entry) ==
    /\ entry.kind = "file"
    /\ Len(entry.name) >= 2
    /\ entry.name[Len(entry.name) - 1] = "."
    /\ LowerLexeme(entry.name[Len(entry.name)]) \in {"txt", "md", "log", "cfg", "json"}

\* what goes wrong with a file of the batch: its read, the os.makedirs of
\* its destination directory, or its os.replace
Failures == {"none", "read", "mkdir", "replace"}

\* a faulty variant: a file goes where the file routed before it went
RECURSIVE scan_entries_Sticky(_, _, _, _, _)
scan_entries_Sticky(entries, box, dry_run, fail, acc) ==
    IF entries = <<>> THEN acc
    ELSE IF ~IsCandidate(Head(entries))
    THEN scan_entries_Sticky(Tail(entries), box, dry_run, fail, acc)
    ELSE LET e == Head(entries)
             f == fail[e.index]
             done == route_file(box.files[e.index], e.name, dry_run,
                                f # "read", f # "mkdir", f # "replace")
             before == {k \in 1..Len(acc.results) : ~acc.results[k].new_path.isNone}
             new_path == IF done.new_path.isNone \/ before = {} THEN done.new_path
                         ELSE LET last == acc.results[MaxOf(before)].new_path.data
                              IN Some(<<last[1], last[2], e.name>>)
             result == [old_path |-> <<e.name>>, new_path |-> new_path,
                        reason |-> done.reason]
         IN IF done.raised THEN [acc EXCEPT !.raised = TRUE]
            ELSE scan_entries_Sticky(Tail(entries), box, dry_run, fail,
                     [acc EXCEPT !.results = Append(@, result),
                                 !.made = @ \cup done.made,
                                 !.places[e.index] =
                                     IF done.moved THEN new_path.data ELSE @])

\* The loop of scan_inbox over the remaining entries.  acc: whether an
\* exception left the loop, the results so far, the directories made and
\* where each file is.
RECURSIVE scan_entries(_, _, _, _, _)
scan_entries(entries, box, dry_run, fail, acc) ==
    IF entries = <<>> THEN acc
    ELSE IF ~IsCandidate(Head(entries))
    THEN scan_entries(Tail(entries), box, dry_run, fail, acc)
    ELSE LET e == Head(entries)
             f == fail[e.index]
             done == route_file(box.files[e.index], e.name, dry_run,
                                f # "read", f # "mkdir", f # "replace")
             result == [old_path |-> <<e.name>>, new_path |-> done.new_path,
                        reason |-> done.reason]
         IN IF done.raised THEN [acc EXCEPT !.raised = TRUE]
            ELSE scan_entries(Tail(entries), box, dry_run, fail,
                     [acc EXCEPT !.results = Append(@, result),
                                 !.made = @ \cup done.made,
                                 !.places[e.index] =
                                     IF done.moved THEN done.new_path.data ELSE @])

scan_inbox(box, dry_run, fail) ==
    LET start == [raised |-> FALSE, results |-> <<>>, made |-> {},
                  places |-> box.at]
    IN IF ~box.exists THEN [start EXCEPT !.raised = TRUE]
       ELSE scan_entries(Listing(box), box, dry_run, fail, start)

\* reason.startswith("MOVED"), reason.startswith("ERROR")
StartsWithMoved(reason) == reason = "MOVED"

StartsWithError(reason) ==
    reason \in {"ERROR: failed to read file", "ERROR: move failed"}

\* the counters moved and errors of main's loop over the results
CountMoved(rs) == Cardinality({i \in 1..Len(rs) : StartsWithMoved(rs[i].reason)})

CountErrors(rs) == Cardinality({i \in 1..Len(rs) : StartsWithError(rs[i].reason)})

\* main after scan_inbox: the counters of its loop over the results, write_log
\* and the return value.  log_ok: write_log makes the log directory and
\* writes the file
router_report(scan, log_ok) ==
    IF scan.raised
    THEN [exit |-> Returned(1), results |-> <<>>, summary |-> Nothing,
          made |-> scan.made, places |-> scan.places]
    ELSE [exit |-> IF ~log_ok THEN Raised
                   ELSE Returned(IF CountErrors(scan.results) = 0 THEN 0 ELSE 1),
          results |-> scan.results,
          summary |-> [moved |-> CountMoved(scan.results),
                       skipped |-> Len(scan.results) - CountMoved(scan.results)
                                       - CountErrors(scan.results),
                       errors |-> CountErrors(scan.results),
                       total |-> Len(scan.results)],
          made |-> scan.made, places |-> scan.places]

router_main(box, dry_run, fail, log_ok) ==
    router_report(scan_inbox(box, dry_run, fail), log_ok)

----------------------------------------------------------------------------
(* pack_linter: lint_packs and main, on a whole inbox directory *)

\* what goes wrong with a file of the batch: the linter's read, or the
\* validator's os.path.isfile or read of the same file
LintFailures == {"none", "read", "isfile", "vread"}

\* the loop of lint_packs over the remaining entries
RECURSIVE lint_entries(_, _, _, _, _, _)
lint_entries(entries, box, with_root, has_validator, fail, rows) ==
    IF entries = <<>> THEN rows
    ELSE IF ~IsCandidate(Head(entries))
    THEN lint_entries(Tail(entries), box, with_root, has_validator, fail, rows)
    ELSE LET e == Head(entries)
             f == fail[e.index]
             t == box.files[e.index]
             counts == validate_pack(t, f # "isfile", f # "vread", with_root, {})
             done == lint_file(t, f # "read", has_validator, counts)
         IN lint_entries(Tail(entries), box, with_root, has_validator, fail,
                         Append(rows, [file |-> <<e.name>>, tool |-> done.tool,
                                       status |-> done.status,
                                       details |-> done.details]))

CountStatus(rows, status) == Cardinality({i \in 1..Len(rows) : rows[i].status = status})

\* the summary lint_packs counts from its rows
lint_summary(rows) ==
    [rows |-> rows,
     summary |-> [ok |-> CountStatus(rows, "OK"), warn |-> CountStatus(rows, "WARN"),
                  fail |-> CountStatus(rows, "FAIL"),
                  skipped |-> CountStatus(rows, "SKIP")]]

lint_packs(box, with_root, has_validator, fail) ==
    lint_summary(lint_entries(Listing(box), box, with_root, has_validator, fail, <<>>))

\* main after lint_packs: write_log and the return value
linter_report(lint, log_ok) ==
    [exit |-> IF ~log_ok THEN Raised
              ELSE Returned(IF lint.summary.fail = 0 THEN 0 ELSE 1),
     results |-> lint.rows, summary |-> lint.summary]

linter_main(box, with_root, has_validator, fail, log_ok) ==
    IF ~box.exists
    THEN [exit |-> Returned(1), results |-> <<>>, summary |-> Nothing]
    ELSE linter_report(lint_packs(box, with_root, has_validator, fail), log_ok)

----------------------------------------------------------------------------
(* run_bpgen_build.main *)

\* bool(value) of an optional string: given and not empty
Truthy(v) == ~v.isNone /\ v.data # <<>>

\* a or b, on optional strings
OrOpt(a, b) == IF Truthy(a) THEN a ELSE b

\* argparse ended the process: SystemExit(code)
Exited(code) == [how |-> "exited", code |-> code]

\* resolve_job_path: the exception it raises, or "ok"
resolve_job_path(job_id, job_file, job_exists) ==
    IF Truthy(job_id) /\ Truthy(job_file) THEN "ValueError"
    ELSE IF ~Truthy(job_file) /\ ~Truthy(job_id) THEN "ValueError"
    ELSE IF ~job_exists THEN "FileNotFoundError"
    ELSE "ok"

\* the parts of the command line build_command joins
build_command(ue_cmd, uproject, job_file, graph_spec_file) ==
    <<ue_cmd, uproject, <<"-run=SOTS_BPGenBuildCommandlet">>, <<"-JobFile=">> \o job_file>>
    \o (IF graph_spec_file.isNone THEN <<>>
        ELSE <<<<"-GraphSpecFile=">> \o graph_spec_file.data>>)

\* a faulty variant: one of the two paths is enough
can_execute_Either(ue_cmd, uproject) == Truthy(ue_cmd) \/ Truthy(uproject)

\* line 383: bool(ue_cmd and uproject)
can_execute(ue_cmd, uproject) == Truthy(ue_cmd) /\ Truthy(uproject)

\* What subprocess.run did: it raised before a process started
\* ("oserror") or after it ended ("decode"), or it gave the return code.
RunEnded(kind, code) == [kind |-> kind, code |-> code]

\* a: the options and the two environment variables.  fs: dirs_ok, the
\* three directories can be made; job_exists; hint, the GraphSpec file the
\* job JSON names ("none", "found", "missing"); spec_exists, the GraphSpec
\* file of the command line or of the default name exists; run.
bpgen_main(a, fs) ==
    LET end(how, spawned, lines) == [exit |-> how, spawned |-> spawned, log |-> lines]
        job == resolve_job_path(a.job_id, a.job_file, fs.job_exists)
        job_path == IF Truthy(a.job_file) THEN a.job_file.data
                    ELSE a.job_id.data \o <<".", "json">>
        concrete_job_id == IF Truthy(a.job_file) THEN Stem(a.job_file.data)
                           ELSE a.job_id.data
        graph_spec_path ==
            IF Truthy(a.graph_spec_file) THEN a.graph_spec_file
            ELSE IF fs.hint # "none" THEN Some(<<"hint", ".", "json">>)
            ELSE IF a.use_graph_spec /\ fs.spec_exists
            THEN Some(concrete_job_id \o <<"_graph", ".", "json">>)
            ELSE None
        ue_cmd == OrOpt(a.ue_cmd, a.env_ue_cmd)
        uproject == OrOpt(a.uproject, a.env_uproject)
        warn == (IF ~Truthy(ue_cmd) THEN <<"[WARN] UE cmd path not provided">> ELSE <<>>)
                \o (IF ~Truthy(uproject)
                    THEN <<"[WARN] UProject path not provided">> ELSE <<>>)
        cmd_str == build_command(
                       IF Truthy(ue_cmd) THEN ue_cmd.data ELSE <<"UnrealEditor-Cmd.exe">>,
                       IF Truthy(uproject) THEN uproject.data
                       ELSE <<"PATH/TO/YourProject.uproject">>,
                       job_path, graph_spec_path)
    IN IF a.job_id.isNone = a.job_file.isNone THEN end(Exited(2), <<>>, <<>>)
       ELSE IF ~fs.dirs_ok THEN end(Raised, <<>>, <<>>)
       ELSE IF job # "ok" THEN end(Returned(1), <<>>, <<"[ERROR] " \o job>>)
       ELSE IF Truthy(a.graph_spec_file) /\ ~fs.spec_exists
       THEN end(Returned(1), <<>>, <<"[ERROR] GraphSpecFile not found">>)
       ELSE IF ~Truthy(a.graph_spec_file) /\ fs.hint = "missing"
       THEN end(Returned(1), <<>>, <<"[ERROR] Job-level GraphSpecFile not found">>)
       ELSE IF a.dry_run
       THEN end(Returned(0), <<>>, warn \o <<"Execution    : Dry-run (no process spawned).">>)
       ELSE IF ~can_execute(ue_cmd, uproject)
       THEN end(Returned(1), <<>>,
                warn \o <<"Execution    : Skipped (missing UE cmd and/or uproject).">>)
       ELSE IF fs.run.kind = "oserror"
       THEN end(Returned(1), <<>>, warn \o <<"[ERROR] Failed to execute Commandlet">>)
       ELSE IF fs.run.kind = "decode"
       THEN end(Returned(1), <<cmd_str>>, warn \o <<"[ERROR] Failed to execute Commandlet">>)
       ELSE end(Returned(fs.run.code), <<cmd_str>>, warn \o <<"Execution    : Ran Commandlet">>)

----------------------------------------------------------------------------
(* devtools_status_dashboard: load_status, save_status, format_dashboard, main *)

VALID_STATUSES == {<<"todo">>, <<"in_progress">>, <<"done">>}

\* JSON values a status file holds.  An object is a function on its keys.
\* NotAnObject is the empty list at the top level and a string as the value
\* of a plugin.
Steps(f) == [isDict |-> TRUE, steps |-> f]

NotAnObject == [isDict |-> FALSE]

Plugins(f) == [isDict |-> TRUE, plugins |-> f]

EmptyObject == Plugins(<<>>)

\* a status file that json.load reads.  bare: its path has no directory part
Json(bare, data) == [bare |-> bare, kind |-> "json", data |-> data]

\* load_status: {} when the file is missing or json.load raises
load_status(file) == IF file.kind = "json" THEN file.data ELSE EmptyObject

\* data[plugin][step] = status, after data[plugin] = {} for a new plugin;
\* raised: data or data[plugin] is not an object
set_status(data, plugin, step, status) ==
    IF ~data.isDict THEN [raised |-> TRUE, data |-> data]
    ELSE IF plugin \notin DOMAIN data.plugins
    THEN [raised |-> FALSE,
          data |-> Plugins([p \in DOMAIN data.plugins \cup {plugin} |->
                               IF p = plugin THEN Steps([s \in {step} |-> status])
                               ELSE data.plugins[p]])]
    ELSE IF ~data.plugins[plugin].isDict THEN [raised |-> TRUE, data |-> data]
    ELSE [raised |-> FALSE,
          data |-> Plugins([data.plugins EXCEPT ![plugin] =
                      Steps([s \in DOMAIN @.steps \cup {step} |->
                                IF s = step THEN status ELSE @.steps[s]])])]

\* save_status.  os.makedirs("") raises, and os.path.dirname of a path
\* without a directory part is "".  answer: the file system refuses the
\* makedirs or the open, or fails during the write, or does all three.
save_status(file, data, answer) ==
    IF file.bare \/ answer = "refused"
    THEN [raised |-> TRUE, file |-> file]
    ELSE IF answer = "write"
    THEN [raised |-> TRUE, file |-> [bare |-> file.bare, kind |-> "corrupt"]]
    ELSE [raised |-> FALSE, file |-> Json(file.bare, data)]

\* format_dashboard raises on data.items() or steps.values() of a value
\* that is not an object; an empty list or object is "not data"
format_dashboard_raises(data) ==
    /\ data.isDict
    /\ \E p \in DOMAIN data.plugins : ~data.plugins[p].isDict

\* main's update branch.  a: the options; fs: what the file system answers.
dashboard_update(a, file, data, fs) ==
    IF ~Truthy(a.plugin) \/ ~Truthy(a.step) \/ ~Truthy(a.status)
    THEN [exit |-> Returned(1), file |-> file, data |-> data]
    ELSE IF set_status(data, a.plugin.data, a.step.data, a.status.data).raised
    THEN [exit |-> Raised, file |-> file, data |-> data]
    ELSE [exit |-> IF save_status(file, data, fs.save).raised THEN Raised ELSE NotEnded,
          file |-> save_status(file,
                               set_status(data, a.plugin.data, a.step.data,
                                          a.status.data).data,
                               fs.save).file,
          data |-> set_status(data, a.plugin.data, a.step.data, a.status.data).data]

\* main after the update branch: format_dashboard, write_log, return 0
dashboard_print(after, fs) ==
    [file |-> after.file,
     exit |-> IF after.exit # NotEnded THEN after.exit
              ELSE IF format_dashboard_raises(after.data) \/ ~fs.log_ok THEN Raised
              ELSE Returned(0)]

\* main; argparse ends the process on a --status outside its choices
dashboard_main(a, file, fs) ==
    IF ~a.status.isNone /\ a.status.data \notin VALID_STATUSES
    THEN [file |-> file, exit |-> Exited(2)]
    ELSE IF a.mode = "update"
    THEN dashboard_print(dashboard_update(a, file, load_status(file), fs), fs)
    ELSE dashboard_print([exit |-> NotEnded, file |-> file, data |-> load_status(file)], fs)

----------------------------------------------------------------------------
(* Inputs *)

\* all strings over alphabet A of length at most n
StringsUpTo(A, n) == UNION {[1..k -> A] : k \in 0..n}

MaxTextLen == 6

\* texts in which the markers may stand anywhere, any number of times
MarkerAlphabet == {HEADER_START, HEADER_END, NL, COLON, "k"}
MarkerTexts == StringsUpTo(MarkerAlphabet, MaxTextLen)

MaxBodyLen == 6

\* texts with one header block whose lines are any text
LineAlphabet == {NL, SP, COLON, HASH, "k", "K"}
LineTexts == {<<HEADER_START, NL>> \o body \o <<HEADER_END>> :
                 body \in StringsUpTo(LineAlphabet, MaxBodyLen)}

MaxModeLen == 3

\* the values a mode field may have, blanks and letter case included
ModeAlphabet == {SP, "auto", "AUTO", "Auto", "auto_run", "auto-run", "manual", "x"}
ModeConfigs ==
    {EmptyDict, (<<"tool">> :> <<"write_files">>)}
    \cup {(<<"mode">> :> m) : m \in StringsUpTo(ModeAlphabet, MaxModeLen)}

MaxSegmentLen == 4

\* the strings handed to sanitize_segment
SegmentAlphabet == {"a", "Z", "9", "_", ".", "-", SP, "!", "/"}
SegmentTexts == StringsUpTo(SegmentAlphabet, MaxSegmentLen)

Field(key, value) == <<key, COLON, SP>> \o value \o <<NL>>

RECURSIVE Concat(_)
Concat(ss) == IF ss = <<>> THEN <<>> ELSE Head(ss) \o Concat(Tail(ss))

\* a pack file: lines with no marker, with both markers, or with no end marker
Framed(bodies) ==
    bodies
    \cup {<<HEADER_START, NL>> \o b \o <<HEADER_END, NL>> : b \in bodies}
    \cup {<<HEADER_START, NL>> \o b : b \in bodies}

MaxPackLines == 2

\* the lines of a pack file that the router, the validator and the linter read
PackLines ==
    {Field("tool", v) : v \in {<<"quick_search">>, <<"nope">>, <<>>}}
    \cup {Field("plugin", <<"My", SP, "Plugin", "!">>), Field("plugin", <<>>),
          Field("target_plugin", <<"P2">>), Field("target", <<"P3">>),
          Field("category", <<"cat">>)}
    \cup {Field("mode", <<"auto">>), Field("search", <<"s">>)}

PackTexts == Framed({Concat(ls) : ls \in StringsUpTo(PackLines, MaxPackLines)})

MaxPromptLines == 2

\* the lines of a prompt file that the dispatcher reads
PromptLines ==
    {Field("mode", v) : v \in {<<"auto">>, <<"AUTO">>, <<"auto_run">>, <<"auto-run">>,
                               <<"manual">>, <<"x">>, <<>>}}
    \cup {Field("Mode", <<"auto">>), <<"mode", EQUALS, "auto", NL>>}
    \cup {Field("tool", v) : v \in {<<"write_files">>, <<"quick_search">>,
                                    <<"regex_replace">>, <<"delete_paths">>,
                                    <<"patch_from_block">>, <<"run_devtool">>,
                                    <<"nope">>, <<>>}}
    \cup {Field("pattern", <<"p">>), Field("paths", <<"a", ";", "b">>),
          Field("script", <<"s.py">>)}

PromptTexts == Framed({Concat(ls) : ls \in StringsUpTo(PromptLines, MaxPromptLines)})

FileNames == {<<"prompt", ".", "txt">>, <<"ChatGPT_Code_Block", "_1", ".", "txt">>}

MaxValidateLines == 2

\* the lines of a pack file that validate_pack's findings depend on
ValidateLines ==
    {Field("tool", v) : v \in {<<"quick_search">>, <<"nope">>, <<>>}}
    \cup {Field("TOOL", <<"pack_lint">>), <<HASH, SP>> \o Field("tool", <<"pack_lint">>),
          Field("path", <<"p">>), Field("target", <<"P3">>), Field("plugin", <<"P2">>)}

ValidateTexts == Framed({Concat(ls) : ls \in StringsUpTo(ValidateLines, MaxValidateLines)})

MaxLintLines == 2

\* the lines of a pack file that the linter's findings depend on; the
\* fields a tool's schema asks for also come together, as one choice
LintLines ==
    {Field("tool", v) : v \in {<<"quick_search">>, <<"mass_regex_edit">>,
                               <<"pack_lint">>, <<"nope">>, <<>>}}
    \cup {Field("search", <<"s">>),
          Field("search", <<"s">>) \o Field("exts", <<".py">>),
          Field("search", <<"s">>) \o Field("replace", <<"r">>)
              \o Field("exts", <<".py">>),
          Field("path", <<"p">>)}

LintTexts == Framed({Concat(ls) : ls \in StringsUpTo(LintLines, MaxLintLines)})

MaxReturnCode == 1

\* an optional string: not given, given empty, given
OptionalPaths(p) == {None, Some(<<>>), Some(<<p>>)}

\* the command lines of run_bpgen_build and the two environment variables
BpgenArgs ==
    [job_id : OptionalPaths("BPGEN_MyHUD"),
     job_file : {None, Some(<<"job", ".", "json">>)},
     graph_spec_file : {None, Some(<<"spec", ".", "json">>)},
     use_graph_spec : BOOLEAN,
     ue_cmd : OptionalPaths("UnrealEditor-Cmd.exe"),
     uproject : OptionalPaths("Game.uproject"),
     dry_run : BOOLEAN,
     env_ue_cmd : {None, Some(<<"UnrealEditor-Cmd.exe">>)},
     env_uproject : {None, Some(<<"Game.uproject">>)}]

\* what the file system answers and how the run of the command ends
BpgenWorlds ==
    [dirs_ok : BOOLEAN,
     job_exists : BOOLEAN,
     spec_exists : BOOLEAN,
     hint : {"none", "found", "missing"},
     run : {RunEnded("oserror", 0), RunEnded("decode", 0)}
           \cup {RunEnded("code", c) : c \in 0..MaxReturnCode}]

MaxFiles == 2

\* a pack file with the given header lines
Pack(lines) == <<HEADER_START, NL>> \o lines \o <<HEADER_END, NL>>

\* the files of an inbox: without header; with a category and a plugin and
\* no tool; with a tool the linter has no schema for, and a plugin; with a
\* tool whose schema asks for more fields
BatchTexts ==
    {<<"x", NL>>,
     Pack(Field("category", <<"tagmanager_audit">>)
          \o Field("plugin", <<"SOTS_TagManager">>)),
     Pack(Field("tool", <<"pack_lint">>) \o Field("plugin", <<"P2">>)),
     Pack(Field("tool", <<"quick_search">>))}

\* the inbox directories: a missing one, and those with up to MaxFiles
\* candidate files and any of the two other entries
Inboxes ==
    {[files |-> <<>>, at |-> <<>>, extras |-> {}, exists |-> FALSE]}
    \cup {[files |-> fs, at |-> [i \in DOMAIN fs |-> <<FileName(i)>>],
            extras |-> ex, exists |-> TRUE] :
              fs \in StringsUpTo(BatchTexts, MaxFiles), ex \in SUBSET {"notes", "subdir"}}

MaxRuns == 2

PluginNames == {<<"P1">>, <<"P2">>}

StepNames == {<<"V2_1">>, <<"V2_2">>}

\* the status files a behaviour starts from: none, one json.load cannot
\* read, and readable ones: empty, a list, of the documented structure, and
\* one with a string where a plugin's steps should be
StatusData ==
    {EmptyObject, NotAnObject,
     Plugins([p \in {<<"P1">>} |-> Steps([s \in {<<"V2_1">>} |-> <<"todo">>])]),
     Plugins([p \in PluginNames |->
                 IF p = <<"P1">>
                 THEN Steps([s \in StepNames |->
                                IF s = <<"V2_1">> THEN <<"done">> ELSE <<"todo">>])
                 ELSE Steps([s \in {<<"V2_1">>} |-> <<"in_progress">>])]),
     Plugins([p \in PluginNames |->
                 IF p = <<"P1">> THEN NotAnObject
                 ELSE Steps([s \in {<<"V2_1">>} |-> <<"todo">>])])}

StatusFiles ==
    {[bare |-> b, kind |-> k] : b \in BOOLEAN, k \in {"missing", "corrupt"}}
    \cup {Json(b, d) : b \in BOOLEAN, d \in StatusData}

\* the options of a run: the dashboard, an update of a pair, an update
\* that lacks an option or has an empty one, and a --status argparse refuses
DashboardArgs ==
    {[mode |-> "dashboard", plugin |-> None, step |-> None, status |-> None]}
    \cup {[mode |-> "update", plugin |-> Some(p), step |-> Some(s), status |-> Some(st)] :
              p \in PluginNames, s \in StepNames, st \in VALID_STATUSES}
    \cup {[mode |-> "update", plugin |-> p, step |-> Some(<<"V2_1">>),
           status |-> Some(<<"done">>)] : p \in {None, Some(<<>>)}}
    \cup {[mode |-> "update", plugin |-> Some(<<"P1">>), step |-> None,
           status |-> Some(<<"done">>)],
          [mode |-> "update", plugin |-> Some(<<"P1">>), step |-> Some(<<"V2_1">>),
           status |-> None],
          [mode |-> "update", plugin |-> Some(<<"P1">>), step |-> Some(<<"V2_1">>),
           status |-> Some(<<"bogus">>)]}

DashboardWorlds == [save : {"ok", "refused", "write"}, log_ok : BOOLEAN]

MaxRouteLines == 2

\* the header lines route_file's destination depends on, with values that
\* name the directory itself and its parent
RouteLines ==
    {Field(k, v) : k \in {"tool", "plugin", "target", "category"},
                   v \in {<<>>, <<"a">>, <<".">>, <<".", ".">>, <<".", ".", "/", "a">>}}

RouteTexts == Framed({Concat(ls) : ls \in StringsUpTo(RouteLines, MaxRouteLines)})

\* the files of an inbox that is scanned twice: without header; routed to
\* a directory of their own; routed to the directory they are in ("." and
\* ".", or a directory and its parent)
PassTexts ==
    {<<"x", NL>>,
     Pack(Field("tool", <<"t">>) \o Field("plugin", <<"p">>)),
     Pack(Field("tool", <<".">>) \o Field("plugin", <<".">>)),
     Pack(Field("tool", <<"t">>) \o Field("plugin", <<".", ".">>))}

PassInboxes ==
    {[files |-> fs, at |-> [i \in DOMAIN fs |-> <<FileName(i)>>],
      extras |-> {}, exists |-> TRUE] : fs \in StringsUpTo(PassTexts, MaxFiles)}

MaxDeleteLines == 2

\* the header lines run_delete_paths reads: paths that name two paths, one,
\* none, nothing; dry_run values that say no, say yes, say neither
DeleteLines ==
    {Field("paths", v) : v \in {<<"a", ";", "b">>, <<"a">>, <<";", SP, ",">>, <<>>}}
    \cup {Field("dry_run", v) :
              v \in {<<"0">>, <<"false">>, <<"no">>, <<"n">>, <<"No">>, <<"FALSE">>,
                     <<"1">>, <<"true">>, <<"yes">>, <<"y">>, <<"off">>, <<"0", "0">>,
                     <<>>}}
    \cup {Field("DRY_RUN", <<"n">>), <<"dry_run", EQUALS, "0", NL>>}

\* prompt files that ask for delete_paths
DeleteTexts ==
    {Pack(Field("mode", <<"auto">>) \o Field("tool", <<"delete_paths">>) \o Concat(ls)) :
         ls \in StringsUpTo(DeleteLines, MaxDeleteLines)}

----------------------------------------------------------------------------
(* Operations on one string: the parsers, sanitize_segment, the mode gate *)

RouterParse ==
    /\ pc = "input"
    /\ header' = router_parse_header_block(text)
    /\ pc' = "router"
    /\ UNCHANGED <<text, name, config, pure, dispatch, routing, linting, batch, board>>

ValidatorParse ==
    /\ pc = "input"
    /\ header' = validator_parse_header_block(text)
    /\ pc' = "validator"
    /\ UNCHANGED <<text, name, config, pure, dispatch, routing, linting, batch, board>>

LinterParse ==
    /\ pc = "input"
    /\ header' = linter_parse_header_block(text)
    /\ pc' = "linter"
    /\ UNCHANGED <<text, name, config, pure, dispatch, routing, linting, batch, board>>

DispatcherParse ==
    /\ pc = "input"
    /\ config' = parse_header(text)
    /\ pc' = "dispatcher"
    /\ UNCHANGED <<text, name, header, pure, dispatch, routing, linting, batch, board>>

SanitizeSegment ==
    /\ pc = "input"
    /\ segment' = sanitize_segment(text)
    /\ pc' = "sanitized"
    /\ UNCHANGED <<text, name, parsed, auto, dispatch, routing, linting, batch, board>>

ShouldAutoDispatch ==
    /\ pc = "input"
    /\ auto' = should_auto_dispatch(config.dict)
    /\ pc' = "gated"
    /\ UNCHANGED <<text, name, parsed, segment, dispatch, routing, linting, batch, board>>

(* Operations on one pack file *)

DispatchFile ==
    /\ pc = "input"
    /\ \E forced, exists, is_file, popen_ok \in BOOLEAN :
           LET done == dispatch_file(text, name, forced, exists, is_file, popen_ok)
           IN /\ force' = forced
              /\ launched' = launched \o done.launch
              /\ log' = log \o done.log
              /\ config' = IF exists THEN parse_header(text) ELSE config
    /\ pc' = "dispatched"
    /\ UNCHANGED <<text, name, header, pure, routing, linting, batch, board>>

RouteFile ==
    /\ pc = "input"
    /\ \E dry_run, read_ok, mkdir_ok, replace_ok \in BOOLEAN :
           LET done == route_file(text, name, dry_run, read_ok, mkdir_ok, replace_ok)
           IN /\ routed' = [new_path |-> done.new_path, reason |-> done.reason,
                            raised |-> done.raised, dry_run |-> dry_run]
              /\ dirs' = dirs \cup done.made
              /\ place' = IF done.moved THEN done.new_path.data ELSE place
              /\ header' = IF read_ok THEN router_parse_header_block(text) ELSE header
    /\ pc' = "routed"
    /\ UNCHANGED <<text, name, config, pure, dispatch, linting, batch, board>>

\* the path fields of the file's header, any of which may name no path
AbsentChoices(t) ==
    LET hdr == validator_parse_header_block(t)
    IN SUBSET (IF hdr.isNone THEN {} ELSE PathFields(hdr.data))

ValidatePack ==
    /\ pc = "input"
    /\ \E is_file, read_ok, with_root \in BOOLEAN :
           \E absent \in AbsentChoices(text) :
               /\ report' = validate_pack(text, is_file, read_ok, with_root, absent)
               /\ header' = IF is_file /\ read_ok
                            THEN validator_parse_header_block(text) ELSE header
    /\ pc' = "validated"
    /\ UNCHANGED <<text, name, config, pure, dispatch, routing, row, batch, board>>

LintFile ==
    /\ pc = "input"
    /\ \E read_ok, has_validator, is_file, vread_ok, with_root \in BOOLEAN :
           \E absent \in AbsentChoices(text) :
               LET counts == validate_pack(text, is_file, vread_ok, with_root, absent)
               IN /\ row' = lint_file(text, read_ok, has_validator, counts)
                  /\ report' = IF read_ok /\ has_validator
                                  /\ ~linter_parse_header_block(text).isNone
                               THEN counts ELSE report
                  /\ header' = IF read_ok THEN linter_parse_header_block(text) ELSE header
    /\ pc' = "linted"
    /\ UNCHANGED <<text, name, config, pure, dispatch, routing, batch, board>>

\* validate_sots_pack.main on one pack file
ValidateMain ==
    /\ pc = "input"
    /\ \E is_file, read_ok, with_root, log_ok \in BOOLEAN :
           \E absent \in AbsentChoices(text) :
               LET done == validate_main(text, is_file, read_ok, with_root, absent, log_ok)
               IN /\ argv' = [project_root |-> with_root]
                  /\ env' = [is_file |-> is_file, read_ok |-> read_ok,
                             absent |-> absent, log_ok |-> log_ok]
                  /\ report' = done.counts
                  /\ exit' = done.exit
                  /\ header' = IF is_file /\ read_ok
                               THEN validator_parse_header_block(text) ELSE header
    /\ pc' = "validate_main"
    /\ UNCHANGED <<text, name, config, pure, dispatch, routing, row,
                   inbox, results, summary, places, board>>

(* Operations on a whole inbox directory *)

RouterMain ==
    /\ pc = "input"
    /\ \E dry_run, log_ok \in BOOLEAN :
           \E fail \in [DOMAIN inbox.files -> Failures] :
               LET done == router_main(inbox, dry_run, fail, log_ok)
               IN /\ argv' = [dry_run |-> dry_run]
                  /\ env' = [fail |-> fail, log_ok |-> log_ok]
                  /\ results' = done.results
                  /\ summary' = done.summary
                  /\ places' = done.places
                  /\ dirs' = dirs \cup done.made
                  /\ exit' = done.exit
    /\ pc' = "router_main"
    /\ UNCHANGED <<text, name, parsed, pure, dispatch, routed, place, linting, inbox, board>>

LinterMain ==
    /\ pc = "input"
    /\ \E with_root, has_validator, log_ok \in BOOLEAN :
           \E fail \in [DOMAIN inbox.files -> LintFailures] :
               LET done == linter_main(inbox, with_root, has_validator, fail, log_ok)
               IN /\ argv' = [project_root |-> with_root]
                  /\ env' = [fail |-> fail, log_ok |-> log_ok,
                             has_validator |-> has_validator]
                  /\ results' = done.results
                  /\ summary' = done.summary
                  /\ exit' = done.exit
    /\ pc' = "linter_main"
    /\ UNCHANGED <<text, name, parsed, pure, dispatch, routing, linting, inbox, places, board>>

\* run_bpgen_build.main
BpgenMain ==
    /\ pc = "input"
    /\ \E a \in BpgenArgs, fs \in BpgenWorlds :
           LET done == bpgen_main(a, fs)
           IN /\ argv' = a
              /\ env' = fs
              /\ launched' = launched \o done.spawned
              /\ log' = log \o done.log
              /\ exit' = done.exit
    /\ pc' = "bpgen_main"
    /\ UNCHANGED <<text, name, parsed, pure, force, routing, linting,
                   inbox, results, summary, places, board>>

\* the inbox directory as the last pass left it
InboxNow == IF pc = "input" THEN inbox ELSE [inbox EXCEPT !.at = places]

\* what can go wrong in a pass: nothing with a file the pass does not list
PassFailures(box) ==
    {fail \in [DOMAIN box.files -> Failures] :
         \A i \in DOMAIN box.files : ~AtTopLevel(box, i) => fail[i] = "none"}

\* one call of scan_inbox, the first on the inbox or the second right after
ScanInbox ==
    /\ pc \in {"input", "scan_inbox"}
    /\ \E dry_run \in BOOLEAN : \E fail \in PassFailures(InboxNow) :
           \E scan \in {scan_inbox(InboxNow, dry_run, fail)} :
               /\ argv' = [dry_run |-> dry_run]
               /\ env' = [fail |-> fail]
               /\ results' = IF scan.raised THEN <<>> ELSE scan.results
               /\ summary' = [raised |-> scan.raised,
                              moved |-> CountMoved(scan.results),
                              errors |-> CountErrors(scan.results)]
               /\ places' = scan.places
               /\ dirs' = dirs \cup scan.made
    /\ inbox' = InboxNow
    /\ pc' = IF pc = "input" THEN "scan_inbox" ELSE "scan_again"
    /\ UNCHANGED <<text, name, parsed, pure, dispatch, routed, place, linting, exit, board>>

----------------------------------------------------------------------------
(* Operations on the status file *)

\* one run of devtools_status_dashboard on the status file
DashboardMain ==
    /\ pc \in {"input", "dashboard_main"}
    /\ runs < MaxRuns
    /\ \E a \in DashboardArgs, fs \in DashboardWorlds :
           /\ argv' = a
           /\ env' = fs
           /\ status_file' = dashboard_main(a, status_file, fs).file
           /\ exit' = dashboard_main(a, status_file, fs).exit
    /\ runs' = runs + 1
    /\ pc' = "dashboard_main"
    /\ UNCHANGED <<text, name, parsed, pure, dispatch, routing, linting,
                   inbox, results, summary, places>>

----------------------------------------------------------------------------
(* Specifications: the tools on one pack file, and each function on its inputs *)

\* an inbox directory without entries
NoInbox == inbox = [files |-> <<>>, at |-> <<>>, extras |-> {}, exists |-> TRUE]

NoResults ==
    /\ pc = "input"
    /\ header = None
    /\ segment = <<>>
    /\ auto = FALSE
    /\ force = FALSE
    /\ launched = <<>>
    /\ log = <<>>
    /\ routed = [new_path |-> None, reason |-> "", raised |-> FALSE, dry_run |-> FALSE]
    /\ dirs = {}
    /\ place = <<name>>
    /\ report = [fatal_errors |-> 0, warnings |-> 0]
    /\ row = [tool |-> <<>>, status |-> "", details |-> <<>>]
    /\ argv = Nothing
    /\ env = Nothing
    /\ results = <<>>
    /\ summary = Nothing
    /\ places = inbox.at
    /\ exit = NotEnded

NoConfig == config = [found |-> FALSE, dict |-> EmptyDict]

\* no status file, and no run of devtools_status_dashboard
NoBoard == status_file = [bare |-> FALSE, kind |-> "missing"] /\ runs = 0

Init ==
    /\ text \in PackTexts
    /\ name \in FileNames
    /\ NoConfig
    /\ NoInbox
    /\ NoResults
    /\ NoBoard

Next == DispatchFile \/ RouteFile \/ ValidatePack \/ LintFile

Spec == Init /\ [][Next]_vars

NextParse == RouterParse \/ ValidatorParse \/ LinterParse \/ DispatcherParse

InitMarkers ==
    /\ text \in MarkerTexts
    /\ name = <<"prompt", ".", "txt">>
    /\ NoConfig
    /\ NoInbox
    /\ NoResults
    /\ NoBoard

InitDispatch ==
    /\ text \in PromptTexts
    /\ name \in FileNames
    /\ NoConfig
    /\ NoInbox
    /\ NoResults
    /\ NoBoard

SpecDispatch == InitDispatch /\ [][DispatchFile]_vars

SpecMarkers == InitMarkers /\ [][NextParse]_vars

InitLines ==
    /\ text \in LineTexts
    /\ name = <<"prompt", ".", "txt">>
    /\ NoConfig
    /\ NoInbox
    /\ NoResults
    /\ NoBoard

SpecLines == InitLines /\ [][NextParse]_vars

InitMode ==
    /\ text = <<>>
    /\ name = <<"prompt", ".", "txt">>
    /\ \E d \in ModeConfigs : config = [found |-> TRUE, dict |-> d]
    /\ NoInbox
    /\ NoResults
    /\ NoBoard

SpecMode == InitMode /\ [][ShouldAutoDispatch]_vars

InitSanitize ==
    /\ text \in SegmentTexts
    /\ name = <<"prompt", ".", "txt">>
    /\ NoConfig
    /\ NoInbox
    /\ NoResults
    /\ NoBoard

SpecSanitize == InitSanitize /\ [][SanitizeSegment]_vars

InitLint ==
    /\ text \in LintTexts
    /\ name = <<"prompt", ".", "txt">>
    /\ NoConfig
    /\ NoInbox
    /\ NoResults
    /\ NoBoard

SpecLint == InitLint /\ [][LintFile]_vars

InitValidate ==
    /\ text \in ValidateTexts
    /\ name = <<"prompt", ".", "txt">>
    /\ NoConfig
    /\ NoInbox
    /\ NoResults
    /\ NoBoard

SpecValidate == InitValidate /\ [][ValidateMain]_vars

InitBpgen ==
    /\ text = <<>>
    /\ name = <<"prompt", ".", "txt">>
    /\ NoConfig
    /\ NoInbox
    /\ NoResults
    /\ NoBoard

SpecBpgen == InitBpgen /\ [][BpgenMain]_vars

InitBatch ==
    /\ text = <<>>
    /\ name = <<"prompt", ".", "txt">>
    /\ NoConfig
    /\ inbox \in Inboxes
    /\ NoResults
    /\ NoBoard

NextBatch == RouterMain \/ LinterMain

SpecBatch == InitBatch /\ [][NextBatch]_vars

InitBoard ==
    /\ text = <<>>
    /\ name = <<"prompt", ".", "txt">>
    /\ NoConfig
    /\ NoInbox
    /\ NoResults
    /\ status_file \in StatusFiles
    /\ runs = 0

SpecBoard == InitBoard /\ [][DashboardMain]_vars

InitRoute ==
    /\ text \in RouteTexts
    /\ name = <<"prompt", ".", "txt">>
    /\ NoConfig
    /\ NoInbox
    /\ NoResults
    /\ NoBoard

SpecRoute == InitRoute /\ [][RouteFile]_vars

InitPasses ==
    /\ text = <<>>
    /\ name = <<"prompt", ".", "txt">>
    /\ NoConfig
    /\ inbox \in PassInboxes
    /\ NoResults
    /\ NoBoard

SpecPasses == InitPasses /\ [][ScanInbox]_vars

InitDelete ==
    /\ text \in DeleteTexts
    /\ name = <<"prompt", ".", "txt">>
    /\ NoConfig
    /\ NoInbox
    /\ NoResults
    /\ NoBoard

SpecDelete == InitDelete /\ [][DispatchFile]_vars

----------------------------------------------------------------------------
(* What the claims say about a text, stated on the text itself *)

Positions(t, c) == {i \in 1..Len(t) : t[i] = c}

HasStart(t) == Positions(t, HEADER_START) # {}

FirstStart(t) == MinOf(Positions(t, HEADER_START))

\* an end marker stands at or after the first start marker
EndAfterFirstStart(t) ==
    /\ HasStart(t)
    /\ \E j \in Positions(t, HEADER_END) : j >= FirstStart(t)

\* the end marker that closes the block
BlockEnd(t) == MinOf({j \in Positions(t, HEADER_END) : j >= FirstStart(t)})

\* The lines between the markers, the start-marker line discarded: the
\* maximal newline-free stretches <<a, b>> (t[a..b], empty when b = a - 1)
\* after the first newline of the block.
BlockLines(t) ==
    LET hi == BlockEnd(t) - 1
        nls == {i \in Positions(t, NL) : i > FirstStart(t) /\ i <= hi}
    IN IF nls = {} THEN {}
       ELSE LET lo == MinOf(nls) + 1
            IN {ab \in (lo..(hi + 1)) \X ((lo - 1)..hi) :
                   /\ ab[2] >= ab[1] - 1
                   /\ (ab[1] = lo \/ t[ab[1] - 1] = NL)
                   /\ (ab[2] = hi \/ t[ab[2] + 1] = NL)
                   /\ \A i \in ab[1]..ab[2] : t[i] # NL}

RECURSIVE TrimLeft(_)
TrimLeft(s) == IF s # <<>> /\ s[1] = SP THEN TrimLeft(Tail(s)) ELSE s

RECURSIVE TrimRight(_)
TrimRight(s) ==
    IF s # <<>> /\ s[Len(s)] = SP THEN TrimRight(SubSeq(s, 1, Len(s) - 1)) ELSE s

Trimmed(s) == TrimRight(TrimLeft(s))

\* a line that is non-blank, does not begin with '#' (blanks before it
\* aside) and contains a colon
IsFieldLine(l) ==
    /\ Trimmed(l) # <<>>
    /\ Trimmed(l)[1] # HASH
    /\ Positions(l, COLON) # {}

FirstColon(l) == MinOf(Positions(l, COLON))

LowerCased(s) == [i \in 1..Len(s) |-> IF s[i] = "K" THEN "k" ELSE s[i]]

KeyOf(l) == LowerCased(Trimmed(SubSeq(l, 1, FirstColon(l) - 1)))

ValueOf(l) == Trimmed(SubSeq(l, FirstColon(l) + 1, Len(l)))

LineAt(t, ab) == SubSeq(t, ab[1], ab[2])

FieldLines(t) == {ab \in BlockLines(t) : IsFieldLine(LineAt(t, ab))}

----------------------------------------------------------------------------
(* C3: inbox_router.parse_header_block returns None exactly for the texts   *)
(* without a start marker and for those without an end marker at or after   *)
(* the first start marker; for every other text it returns a mapping.       *)
C3_AbsentIffNoBlock ==
    pc = "router" =>
        /\ (~HasStart(text) => header = None)
        /\ (HasStart(text) /\ ~EndAfterFirstStart(text) => header = None)
        /\ (EndAfterFirstStart(text) => ~header.isNone /\ header = Some(header.data))

\* a text whose only end marker stands before its start marker was parsed
C3_Witness ==
    /\ pc = "router"
    /\ HasStart(text)
    /\ Positions(text, HEADER_END) # {}
    /\ ~EndAfterFirstStart(text)
    /\ header = None

(* C4: every header parser (the three parse_header_block and the           *)
(* dispatcher's parse_header) finds the header of any text with an end      *)
(* marker after the first start marker, also when another end marker        *)
(* stands before the start marker.                                          *)
C4_EndSearchedFromStart ==
    EndAfterFirstStart(text) =>
        /\ (pc \in {"router", "validator", "linter"} => ~header.isNone)
        /\ (pc = "dispatcher" => config.found)

(* C5: the mapping of inbox_router.parse_header_block has exactly the keys  *)
(* of the field lines of the block (non-blank, not a '#' line, with a       *)
(* colon), each key the text before the first colon trimmed and             *)
(* lower-cased, each value the trimmed text after the first colon of such a *)
(* line; every other line contributes nothing.                              *)
C5_EntriesAreFieldLines ==
    pc = "router" /\ ~header.isNone =>
        /\ DOMAIN header.data = {KeyOf(LineAt(text, ab)) : ab \in FieldLines(text)}
        /\ \A key \in DOMAIN header.data :
               \E ab \in FieldLines(text) :
                   /\ KeyOf(LineAt(text, ab)) = key
                   /\ ValueOf(LineAt(text, ab)) = header.data[key]

\* a block with a '#' line and a line "K::" was parsed: key k, value ":"
C5_Witness ==
    /\ pc = "router"
    /\ ~header.isNone
    /\ Positions(text, HASH) # {}
    /\ Positions(text, "K") # {}
    /\ DOMAIN header.data = {<<"k">>}
    /\ header.data[<<"k">>] = <<COLON>>

(* C6: when several lines of a block have the same key (case-insensitive),  *)
(* the mapping of parse_header_block holds the value of the last of them.   *)
C6_LastLineWins ==
    pc = "router" /\ ~header.isNone =>
        \A ab \in FieldLines(text) :
            LET key == KeyOf(LineAt(text, ab))
                same == {cd \in FieldLines(text) : KeyOf(LineAt(text, cd)) = key}
            IN (\A cd \in same : cd[1] <= ab[1]) =>
                   /\ key \in DOMAIN header.data
                   /\ header.data[key] = ValueOf(LineAt(text, ab))

\* two lines with the same key, spelled k and then K, and different values
C6_Witness ==
    /\ pc = "router"
    /\ ~header.isNone
    /\ \E ab, cd \in FieldLines(text) :
           /\ ab[1] < cd[1]
           /\ text[ab[1]] = "k"
           /\ text[cd[1]] = "K"
           /\ KeyOf(LineAt(text, ab)) = <<"k">>
           /\ KeyOf(LineAt(text, cd)) = <<"k">>
           /\ ValueOf(LineAt(text, ab)) # ValueOf(LineAt(text, cd))
           /\ header.data[<<"k">>] = ValueOf(LineAt(text, cd))

----------------------------------------------------------------------------
\* the spellings of the three affirmative mode values
AutoSpellings == {"auto", "AUTO", "Auto", "auto_run", "AUTO_RUN", "auto-run"}

\* a mode value that, trimmed and lower-cased, is auto, auto_run or auto-run
IsAutoMode(v) == \E w \in AutoSpellings : Trimmed(v) = <<w>>

\* the header the dispatcher read has such a mode field
HeaderHasAutoMode ==
    /\ config.found
    /\ <<"mode">> \in DOMAIN config.dict
    /\ IsAutoMode(config.dict[<<"mode">>])

\* the file's name contains chatgpt_code_block, in any letter case
NamedCodeBlock ==
    \E i \in 1..Len(name) : name[i] \in {"chatgpt_code_block", "ChatGPT_Code_Block"}

\* the command of the no-header fallback: patch_from_block.py in file mode
IsFallbackCommand(cmd) ==
    /\ cmd[1] = <<"patch_from_block.py">>
    /\ cmd[3] = <<"file">>
    /\ cmd[5] = <<"<no-header-fallback>">>

C2_TrueOnlyForAuto ==
    pc = "gated" =>
        auto = (/\ <<"mode">> \in DOMAIN config.dict
                /\ Trimmed(config.dict[<<"mode">>]) \in {<<"auto">>, <<"AUTO">>, <<"Auto">>})

(* C2 as amended: should_auto_dispatch is true exactly when the mode value, *)
(* trimmed and lower-cased, is auto, auto_run or auto-run; it is false for  *)
(* 'manual', for a config without mode and for every other value.           *)
C2_TrueOnlyForAutoVariants ==
    pc = "gated" =>
        auto = (/\ <<"mode">> \in DOMAIN config.dict
                /\ IsAutoMode(config.dict[<<"mode">>]))

\* the gate answered true for " AUTO "
C2_Witness ==
    /\ pc = "gated"
    /\ <<"mode">> \in DOMAIN config.dict
    /\ config.dict[<<"mode">>] = <<SP, "AUTO", SP>>
    /\ auto

----------------------------------------------------------------------------
\* a header block with both markers and no field line
EmptyBlock(t) == EndAfterFirstStart(t) /\ FieldLines(t) = {}

(* C7: a header block with both markers and no key:value line is treated    *)
(* unlike an absent header by every caller: validate_pack counts a fatal    *)
(* error, the linter's status is FAIL, the router does not answer SKIP, and *)
(* the dispatcher does not take its no-header fallback path.                *)
C7_EmptyHeaderIsNotAbsent ==
    EmptyBlock(text) =>
        /\ (pc = "validated" => report.fatal_errors > 0)
        /\ (pc = "linted" => row.status = "FAIL")
        /\ (pc = "routed" => routed.reason # "SKIP: no [SOTS_DEVTOOLS] header found")
        /\ (pc = "dispatched" =>
               \A i \in 1..Len(log) : log[i] # "No header; fallback dispatch")

----------------------------------------------------------------------------
\* the file was given a destination <<tool segment, plugin segment, name>>
HasDestination == pc = "routed" /\ ~routed.new_path.isNone

Present(hdr, key) == key \in DOMAIN hdr /\ hdr[key] # <<>>

(* C8: the plugin segment of route_file is the value of the first of        *)
(* plugin, target_plugin, target that the header has, in that order, and is *)
(* "misc" when it has none of the three.                                    *)
C8_PluginFromThreeKeys ==
    HasDestination =>
        routed.new_path.data[2] =
            IF Present(header.data, <<"plugin">>)
            THEN sanitize_segment(header.data[<<"plugin">>])
            ELSE IF Present(header.data, <<"target_plugin">>)
            THEN sanitize_segment(header.data[<<"target_plugin">>])
            ELSE IF Present(header.data, <<"target">>)
            THEN sanitize_segment(header.data[<<"target">>])
            ELSE <<"misc">>

(* C9: the tool segment of route_file is the header's tool value when it is *)
(* present and non-empty and is "unknown" in every other case, a 'tool:'    *)
(* line with an empty value included.                                       *)
C9_ToolOrUnknown ==
    HasDestination =>
        routed.new_path.data[1] =
            IF Present(header.data, <<"tool">>)
            THEN sanitize_segment(header.data[<<"tool">>])
            ELSE <<"unknown">>

----------------------------------------------------------------------------
\* the characters of [A-Za-z0-9_.-] among those handed to sanitize_segment
AllowedChars == {"a", "Z", "9", "_", ".", "-"}

\* the positions of the trimmed input that take part in the output: every
\* allowed character, and the first character of every run of others
RunHeads(v) ==
    {i \in 1..Len(v) : v[i] \in AllowedChars \/ i = 1 \/ v[i - 1] \in AllowedChars}

\* the k-th smallest element of a set of numbers
Nth(S, k) == CHOOSE i \in S : Cardinality({j \in S : j <= i}) = k

(* C10 as stated: sanitize_segment replaces every single character outside  *)
(* [A-Za-z0-9_.-] of the trimmed input by one '_' and keeps the others, so  *)
(* the output is as long as the trimmed input.                              *)
C10_OneUnderscorePerChar ==
    pc = "sanitized" /\ Trimmed(text) # <<>> =>
        /\ Len(segment) = Len(Trimmed(text))
        /\ \A i \in 1..Len(segment) :
               segment[i] = IF Trimmed(text)[i] \in AllowedChars
                            THEN Trimmed(text)[i] ELSE "_"

(* C10 as amended: sanitize_segment replaces every maximal run of           *)
(* characters outside [A-Za-z0-9_.-] of the trimmed input by one '_' and    *)
(* keeps the others, so the output is never longer than the trimmed input   *)
(* and is as long exactly when no two such characters are adjacent.         *)
C10_OneUnderscorePerRun ==
    pc = "sanitized" /\ Trimmed(text) # <<>> =>
        LET v == Trimmed(text)
        IN /\ Len(segment) = Cardinality(RunHeads(v))
           /\ \A k \in 1..Len(segment) :
                  segment[k] = IF v[Nth(RunHeads(v), k)] \in AllowedChars
                               THEN v[Nth(RunHeads(v), k)] ELSE "_"
           /\ Len(segment) <= Len(v)
           /\ (Len(segment) = Len(v)) =
                  (\A i \in 2..Len(v) :
                       v[i] \in AllowedChars \/ v[i - 1] \in AllowedChars)

\* "a!/Z" was sanitized to "a_Z"
C10_Witness ==
    /\ pc = "sanitized"
    /\ text = <<"a", "!", "/", "Z">>
    /\ segment = <<"a", "_", "Z">>

----------------------------------------------------------------------------
\* the lexemes a segment is made of when it has only characters of
\* [A-Za-z0-9_.-]: the allowed characters and the word "misc"
IsSegmentLexeme(c) == c \in AllowedChars \/ c = "misc"

\* a string of blanks only, the empty string included
AllBlank(s) == \A i \in 1..Len(s) : s[i] = SP

(* C11: sanitize_segment returns, for every input, a non-empty string made  *)
(* only of characters of [A-Za-z0-9_.-]; for the empty string and for an    *)
(* input of blanks only it returns "misc".                                  *)
C11_NonEmptyAllowedOrMisc ==
    pc = "sanitized" =>
        /\ segment # <<>>
        /\ \A i \in 1..Len(segment) : IsSegmentLexeme(segment[i])
        /\ (AllBlank(text) => segment = <<"misc">>)

\* a string of two blanks was sanitized to "misc"
C11_Witness ==
    /\ pc = "sanitized"
    /\ text = <<SP, SP>>
    /\ segment = <<"misc">>

----------------------------------------------------------------------------
\* the file of the end-to-end scenario: a category and a plugin, no tool
TagManagerPack ==
    Pack(Field("category", <<"tagmanager_audit">>)
         \o Field("plugin", <<"SOTS_TagManager">>))

\* nothing went wrong with any file of the batch
NoFailure == \A i \in DOMAIN env.fail : env.fail[i] = "none"

(* C12: a run of inbox_router without --dry-run on an inbox whose one       *)
(* candidate file has the header fields category: tagmanager_audit and      *)
(* plugin: SOTS_TagManager moves the file to                                *)
(* <inbox>/tagmanager_audit/SOTS_TagManager/<name> and reports MOVED.       *)
C12_RoutedByCategoryAndPlugin ==
    /\ pc = "router_main"
    /\ inbox.files = <<TagManagerPack>>
    /\ ~argv.dry_run
    /\ NoFailure
    => /\ Len(results) = 1
       /\ results[1].reason = "MOVED"
       /\ results[1].new_path =
              Some(<<<<"tagmanager_audit">>, <<"SOTS_TagManager">>, FileName(1)>>)
       /\ places[1] = <<<<"tagmanager_audit">>, <<"SOTS_TagManager">>, FileName(1)>>

----------------------------------------------------------------------------
\* the linter read the file and found a header
LintedWithHeader == pc = "linted" /\ ~header.isNone

\* the header has the key, with a non-empty value
HasField(key) == key \in DOMAIN header.data /\ header.data[key] # <<>>

\* a fatal finding: a fatal error counted by validate_pack when it ran, or
\* no tool
FatalFinding == report.fatal_errors > 0 \/ ~HasField(<<"tool">>)

\* a field the schema of the header's tool asks for is missing
SchemaFinding ==
    \/ /\ HasField(<<"tool">>)
       /\ header.data[<<"tool">>] = <<"quick_search">>
       /\ \E key \in {<<"search">>, <<"exts">>} : ~HasField(key)
    \/ /\ HasField(<<"tool">>)
       /\ header.data[<<"tool">>] = <<"mass_regex_edit">>
       /\ \E key \in {<<"search">>, <<"replace">>, <<"exts">>} : ~HasField(key)

\* a warning: one counted by validate_pack when it ran, or a schema finding
WarningFinding == report.warnings > 0 \/ SchemaFinding

(* C13: for a linted file with a header the status is FAIL if there is a    *)
(* fatal finding (a fatal error of validate_pack, or no tool), else WARN if *)
(* there is a warning (of validate_pack, or of the tool's schema), else OK, *)
(* in whatever order the findings come and whether or not validate_pack is  *)
(* available: a warning never turns FAIL into WARN, and a fatal finding     *)
(* always gives FAIL.                                                       *)
C13_StatusIsWorstFinding ==
    LintedWithHeader =>
        row.status = IF FatalFinding THEN "FAIL"
                     ELSE IF WarningFinding THEN "WARN"
                     ELSE "OK"

\* validate_pack counted a fatal error for a file whose tool has a schema
\* warning too, and the status is FAIL
C13_Witness ==
    /\ LintedWithHeader
    /\ report.fatal_errors > 0
    /\ HasField(<<"tool">>)
    /\ SchemaFinding
    /\ row.status = "FAIL"

----------------------------------------------------------------------------
\* the i-th file of the inbox has a header block
FileHasHeader(i) == EndAfterFirstStart(inbox.files[i])

\* What went wrong with the i-th file, if the router got that far: its
\* read; the making of its destination directory, which only a file with a
\* header asks for; its move, which is not tried in a dry run.
RouterFailed(i) ==
    \/ env.fail[i] = "read"
    \/ env.fail[i] = "mkdir" /\ FileHasHeader(i)
    \/ env.fail[i] = "replace" /\ FileHasHeader(i) /\ ~argv.dry_run

(* C14: in a batch run of inbox_router and of pack_linter on an existing    *)
(* inbox, every candidate file gets its own result, in order; a file whose  *)
(* read, destination directory or move fails gets an ERROR result           *)
(* (router) or a FAIL row (linter), and the files after it are still        *)
(* processed.                                                               *)
C14_FailureDoesNotEndBatch ==
    /\ (pc = "router_main" /\ inbox.exists =>
           /\ Len(results) = Len(inbox.files)
           /\ \A i \in DOMAIN inbox.files :
                  /\ results[i].old_path = <<FileName(i)>>
                  /\ (RouterFailed(i) => StartsWithError(results[i].reason)))
    /\ (pc = "linter_main" /\ inbox.exists =>
           /\ Len(results) = Len(inbox.files)
           /\ \A i \in DOMAIN inbox.files :
                  /\ results[i].file = <<FileName(i)>>
                  /\ (env.fail[i] = "read" => results[i].status = "FAIL"))

(* C15: for an existing inbox, inbox_router.main returns non-zero only if   *)
(* some file of the batch ended with an ERROR result and pack_linter.main   *)
(* only if some file ended with FAIL; a batch whose files all ended in      *)
(* SKIP, DRY-RUN, MOVED, OK or WARN returns 0.                              *)
C15_NonZeroOnlyOnErrorOrFail ==
    /\ (pc = "router_main" /\ inbox.exists /\ exit.how = "returned" =>
           (exit.code # 0) =
               (\E k \in 1..Len(results) : StartsWithError(results[k].reason)))
    /\ (pc = "linter_main" /\ inbox.exists /\ exit.how = "returned" =>
           (exit.code # 0) =
               (\E k \in 1..Len(results) : results[k].status = "FAIL"))

----------------------------------------------------------------------------
\* the file a result of the router is about
FileOf(result) == CHOOSE i \in DOMAIN inbox.files : <<FileName(i)>> = result.old_path

\* the destination of a file as its content and its name alone give it
DestinationOf(t, file_name) ==
    <<route_tool(router_parse_header_block(t).data),
      route_plugin(router_parse_header_block(t).data),
      file_name>>

(* C16: the destination route_file computes for a file is a function of the *)
(* file's content and base name (below the inbox directory): in every       *)
(* batch, whatever other files the inbox holds, whatever was routed before  *)
(* the file and at whatever place of the order it comes, a file that gets a *)
(* destination gets the one its content and name give it.                   *)
C16_DestinationFromFileAlone ==
    pc = "router_main" =>
        \A k \in 1..Len(results) :
            ~results[k].new_path.isNone =>
                results[k].new_path.data =
                    DestinationOf(inbox.files[FileOf(results[k])],
                                  FileName(FileOf(results[k])))

\* two files with different destination directories were routed one after
\* the other, the second to its own destination
C16_Witness ==
    /\ pc = "router_main"
    /\ Len(results) = 2
    /\ ~results[1].new_path.isNone
    /\ ~results[2].new_path.isNone
    /\ results[1].new_path.data[1] # results[2].new_path.data[1]
    /\ results[2].new_path.data = DestinationOf(inbox.files[2], FileName(2))

----------------------------------------------------------------------------
\* the making of a destination directory failed for some file with a header
MakedirsFailed == \E i \in DOMAIN inbox.files : env.fail[i] = "mkdir" /\ FileHasHeader(i)

----------------------------------------------------------------------------
\* the lines of the header block that give the tool, in any letter case
ToolLines(t) ==
    {ab \in FieldLines(t) :
        Trimmed(SubSeq(LineAt(t, ab), 1, FirstColon(LineAt(t, ab)) - 1))
            \in {<<"tool">>, <<"TOOL">>}}

\* the block has a tool line, and the last one has a value
ToolGiven(t) ==
    /\ ToolLines(t) # {}
    /\ \E ab \in ToolLines(t) :
           /\ \A cd \in ToolLines(t) : cd[1] <= ab[1]
           /\ ValueOf(LineAt(t, ab)) # <<>>

\* what the claim lists as fatal: no file, no read, no header block, no tool
FatalCondition ==
    \/ ~env.is_file
    \/ ~env.read_ok
    \/ ~EndAfterFirstStart(text)
    \/ ~ToolGiven(text)

(* C18: validate_pack counts a fatal error exactly when the file does not   *)
(* exist or cannot be read, the header block is absent, or the tool field   *)
(* is missing or empty, and then main returns 1; a tool outside KNOWN_TOOLS *)
(* and a path-like field whose path does not exist only add warnings, and   *)
(* main returns 0.                                                          *)
C18_FatalOnlyWithoutFileHeaderOrTool ==
    pc = "validate_main" =>
        /\ (report.fatal_errors > 0) = FatalCondition
        /\ (exit.how = "returned" =>
               exit.code = IF FatalCondition THEN 1 ELSE 0)

\* a pack with an unknown tool and a path field whose path does not exist
\* was validated against a project root: two warnings, no fatal error, 0
C18_Witness ==
    /\ pc = "validate_main"
    /\ argv.project_root
    /\ Positions(text, "nope") # {}
    /\ env.absent # {}
    /\ report = [fatal_errors |-> 0, warnings |-> 2]
    /\ exit = Returned(0)

----------------------------------------------------------------------------
\* the tools the dispatcher has a handler for
HandlerNames ==
    {<<"write_files">>, <<"quick_search">>, <<"regex_replace">>,
     <<"delete_paths">>, <<"patch_from_block">>, <<"run_devtool">>}

\* the header the dispatcher read has fields and names none of its handlers
NoHandlerNamed ==
    /\ config.found
    /\ config.dict # EmptyDict
    /\ (<<"tool">> \in DOMAIN config.dict => config.dict[<<"tool">>] \notin HandlerNames)

\* the log lines of error level: those that begin with ERROR
IsErrorLine(line) ==
    line \in {"ERROR: Prompt file not found"}
             \cup {"ERROR running " \o tag :
                      tag \in {"write_files", "quick_search", "regex_replace",
                               "delete_paths", "patch_from_block (header)",
                               "patch_from_block (fallback)", "run_devtool"}}

(* C19: when a header that is dispatched (force=True, or an affirmative     *)
(* mode) names a tool that is none of the dispatcher's handlers, or no      *)
(* tool, no handler is launched and the caller of dispatch_file gets an     *)
(* error-level result: the request is reported as an error, not ignored.    *)
C19_UnknownToolIsAnError ==
    pc = "dispatched" /\ NoHandlerNamed /\ (force \/ HeaderHasAutoMode) =>
        /\ launched = <<>>
        /\ \E i \in 1..Len(log) : IsErrorLine(log[i])

----------------------------------------------------------------------------
\* a path given as an option or, failing that, in the environment
Available(option, variable) ==
    \/ ~option.isNone /\ option.data # <<>>
    \/ ~variable.isNone /\ variable.data # <<>>

\* both the UE command path and the .uproject path are available
BothPathsAvailable ==
    /\ Available(argv.ue_cmd, argv.env_ue_cmd)
    /\ Available(argv.uproject, argv.env_uproject)

\* a process was spawned for the commandlet
Spawned == launched # <<>>

\* main ran to a return statement: argparse took the command line (one of
\* --job-id and --job-file) and the working directories could be made
MainReturned == exit.how = "returned"

\* the job file was found, and so was the GraphSpec file the command line
\* or the job names, if any
JobAndSpecFound ==
    /\ \/ ~argv.job_file.isNone /\ argv.job_file.data # <<>>
       \/ ~argv.job_id.isNone /\ argv.job_id.data # <<>>
    /\ env.job_exists
    /\ (~argv.graph_spec_file.isNone => env.spec_exists)
    /\ (argv.graph_spec_file.isNone => env.hint # "missing")

(* C20 as stated: run_bpgen_build.main spawns the commandlet only when      *)
(* --dry-run is not set and both paths are available; with --dry-run it     *)
(* returns 0 without spawning, also when the paths are missing; without     *)
(* --dry-run and with a missing path it returns 1 without spawning.         *)
C20_DryRunReturnsZero ==
    pc = "bpgen_main" /\ MainReturned =>
        /\ (Spawned => ~argv.dry_run /\ BothPathsAvailable)
        /\ (argv.dry_run => exit.code = 0 /\ ~Spawned)
        /\ (~argv.dry_run /\ ~BothPathsAvailable => exit.code = 1 /\ ~Spawned)

(* C20 as amended: main spawns the commandlet only when --dry-run is not    *)
(* set and both paths are available.  With --dry-run it spawns nothing and, *)
(* when it returns, returns 0 if the job file and the GraphSpec file named  *)
(* to it are found, also when the paths are missing, and 1 if they are      *)
(* not; without --dry-run and with a missing path it spawns nothing and     *)
(* returns 1.                                                               *)
C20_SpawnOnlyWithPathsAndNoDryRun ==
    pc = "bpgen_main" =>
        /\ (Spawned => ~argv.dry_run /\ BothPathsAvailable /\ JobAndSpecFound)
        /\ (argv.dry_run /\ MainReturned =>
               exit.code = IF JobAndSpecFound THEN 0 ELSE 1)
        /\ (~argv.dry_run /\ ~BothPathsAvailable /\ MainReturned => exit.code = 1)

\* a dry run with neither path, in options or environment, returned 0
C20_Witness ==
    /\ pc = "bpgen_main"
    /\ argv.dry_run
    /\ ~Available(argv.ue_cmd, argv.env_ue_cmd)
    /\ ~Available(argv.uproject, argv.env_uproject)
    /\ JobAndSpecFound
    /\ exit = Returned(0)
    /\ ~Spawned

----------------------------------------------------------------------------
(* What the claims say about the status file *)

\* the documented structure: an object of plugins, each an object of steps
Documented(file) ==
    /\ file.kind = "json"
    /\ file.data.isDict
    /\ \A p \in DOMAIN file.data.plugins : file.data.plugins[p].isDict

\* the status a documented file stores for a pair, if any
Stored(file, plugin, step) ==
    IF plugin \in DOMAIN file.data.plugins
       /\ step \in DOMAIN file.data.plugins[plugin].steps
    THEN Some(file.data.plugins[plugin].steps[step])
    ELSE None

\* a run in update mode with a plugin, a step and a status of VALID_STATUSES
IsUpdate(a) ==
    /\ a.mode = "update"
    /\ Truthy(a.plugin) /\ Truthy(a.step)
    /\ ~a.status.isNone /\ a.status.data \in VALID_STATUSES

\* after the run the file stores the run's status for the run's pair and
\* what it stored before for every other pair
UpdatedBy(a, before, after) ==
    /\ Documented(after)
    /\ \A p \in PluginNames, s \in StepNames :
           Stored(after, p, s) = IF p = a.plugin.data /\ s = a.step.data
                                 THEN Some(a.status.data)
                                 ELSE Stored(before, p, s)

\* one run on a status file of the documented structure, in which the file
\* system does what save_status asks of it
RunOnDocumented ==
    /\ runs' = runs + 1
    /\ Documented(status_file)
    /\ env'.save = "ok"

(***************************************************************************)
(* C21: starting from a readable status file, each update-mode run with a   *)
(* plugin, a step and a status of VALID_STATUSES leaves the file storing     *)
(* that status for that pair and the previous value for every other pair,   *)
(* so that after any sequence of runs each pair has the status of its most   *)
(* recent update; a dashboard-mode run leaves the status file as it was.     *)
(***************************************************************************)
C21_UpdateStoresOnlyItsPair ==
    [][RunOnDocumented =>
          /\ IsUpdate(argv') => UpdatedBy(argv', status_file, status_file')
          /\ argv'.mode = "dashboard" => status_file' = status_file]_vars

----------------------------------------------------------------------------
(* What the claims say about the paths of the router *)

\* the file system finds the path where its parts say: no part is "." or
\* "..", so the path lies as many levels below the inbox as it has parts
LiesBelowInbox(path, depth) ==
    /\ Len(path) = depth
    /\ Resolve(path) = [up |-> 0, parts |-> path]

(***************************************************************************)
(* C22: for every header the destination route_file computes lies strictly  *)
(* inside the inbox directory, at <inbox>/<tool-segment>/<plugin-segment>/   *)
(* <basename>: no directory is made and no file is placed outside the inbox  *)
(* directory or at its top level.                                            *)
(***************************************************************************)
C22_DestinationInsideInbox ==
    pc = "routed" =>
        /\ ~routed.new_path.isNone => LiesBelowInbox(routed.new_path.data, 3)
        /\ \A d \in dirs : LiesBelowInbox(d, 2)
        /\ place # <<name>> => LiesBelowInbox(place, 3)

\* the pass that has just ended was no dry run, returned, and reported no ERROR
CleanPass ==
    /\ pc = "scan_inbox"
    /\ ~argv.dry_run
    /\ ~summary.raised
    /\ summary.errors = 0

(***************************************************************************)
(* C23: after a pass of scan_inbox without dry_run that reported no ERROR,   *)
(* no candidate file with a header is at the top level of the inbox, and    *)
(* the pass that follows it moves nothing.                                   *)
(***************************************************************************)
C23_SecondPassMovesNothing ==
    [][CleanPass /\ pc' = "scan_again" =>
          /\ \A i \in DOMAIN inbox.files : FileHasHeader(i) => ~AtTopLevel(InboxNow, i)
          /\ summary'.moved = 0]_vars

(***************************************************************************)
(* C24: a run of inbox_router with --dry-run leaves the tree of the inbox    *)
(* directory as it was: every file is where it was and no directory has     *)
(* been made below the inbox.                                                *)
(***************************************************************************)
C24_DryRunLeavesTheTree ==
    pc = "router_main" /\ argv.dry_run => places = inbox.at /\ dirs = {}

----------------------------------------------------------------------------
(* What the claims say about the four parsers together *)

\* the three parse_header_block functions return the same for the text
BlockParsersAgree(t) ==
    /\ validator_parse_header_block(t) = router_parse_header_block(t)
    /\ linter_parse_header_block(t) = router_parse_header_block(t)

(***************************************************************************)
(* C25: for every text that contains a header block, parse_header_block of  *)
(* inbox_router, of validate_sots_pack and of pack_linter and parse_header   *)
(* of sots_chatgpt_dispatcher return the same key/value mapping.             *)
(***************************************************************************)
C25_FourParsersAgree ==
    pc # "input" /\ EndAfterFirstStart(text) =>
        /\ BlockParsersAgree(text)
        /\ parse_header(text).dict = router_parse_header_block(text).data

----------------------------------------------------------------------------
(* What the claims say about delete_paths *)

\* the command runs delete_paths.py
IsDeletePaths(cmd) == cmd[1] = <<"delete_paths.py">>

\* the command ends in the flag --dry_run, which is not the value of a --path
CarriesDryRun(cmd) ==
    /\ cmd[Len(cmd)] = <<"--dry_run">>
    /\ cmd[Len(cmd) - 1] # <<"--path">>

\* the header's dry_run field is 0, false, no or n, in any letter case
SaysNoDryRun(cfg) ==
    /\ <<"dry_run">> \in DOMAIN cfg
    /\ Lower(Strip(cfg[<<"dry_run">>])) \in {<<"0">>, <<"false">>, <<"no">>, <<"n">>}

\* the header's paths field names a path: something besides ';', ',', blanks
NamesAPath(cfg) ==
    /\ <<"paths">> \in DOMAIN cfg
    /\ \E i \in 1..Len(cfg[<<"paths">>]) : cfg[<<"paths">>][i] \notin {";", ",", SP}

(***************************************************************************)
(* C26: a command the dispatcher launches for tool delete_paths lacks the   *)
(* flag --dry_run only if the header's dry_run field is 0, false, no or n   *)
(* (in any letter case); when the field is absent, empty or anything else   *)
(* the command carries --dry_run; and no command is launched when the paths *)
(* field is missing or names no path.                                        *)
(***************************************************************************)
C26_DeletesOnlyOnExplicitNo ==
    pc = "dispatched" =>
        \A k \in DOMAIN launched :
            IsDeletePaths(launched[k]) =>
                /\ CarriesDryRun(launched[k]) \/ SaysNoDryRun(config.dict)
                /\ NamesAPath(config.dict)

C26_Witness ==
    /\ pc = "dispatched"
    /\ Len(launched) = 1
    /\ IsDeletePaths(launched[1])
    /\ ~CarriesDryRun(launched[1])
    /\ config.dict[<<"dry_run">>] = <<"No">>

====
